---- MODULE Spec2Model ----
(***************************************************************************)
(* A model of the telemetry logger of ai-toolkit-telemetry                 *)
(* (src/toolkit/telemetry.py) and of the dashboard side of its control     *)
(* file (src/dashboard.py).                                                *)
(*                                                                         *)
(* The specifications share the variables:                                 *)
(*   Spec         the event logger and its sinks (metrics.jsonl,           *)
(*                metrics.csv) under arbitrary caller input, and close();  *)
(*   SpecIO       the same logger with the optional integrations, with     *)
(*                injected I/O failures and re-construction;               *)
(*   SpecControl  the control channel: threads of the training process     *)
(*                calling check_control_file, the clock, and the writers   *)
(*                of control.json;                                         *)
(*   SpecDetect   the dashboard's detect_training_issues on the records    *)
(*                of a run;                                                *)
(*   SpecView     the dashboard reading metrics.jsonl of a run while the   *)
(*                training process logs to it;                             *)
(*   SpecPoll     the control channel under fair scheduling of the poll    *)
(*                and of the clock;                                        *)
(*   SpecFolder   the dataset creator's process_folder                     *)
(*                (src/datasetcreator/core/processor.py) on a folder of    *)
(*                images;                                                  *)
(*   SpecPair     two training processes, each with its own logger, on     *)
(*                the same run directory.                                  *)
(***************************************************************************)
EXTENDS Integers, Sequences, FiniteSets, TLC

(***************************************************************************)
(* Bounds of the model.                                                    *)
(***************************************************************************)
\* log_* calls in one behaviour of Spec
MaxRecords == 3
\* log_* calls in one behaviour of SpecIO
MaxIOCalls == 2
\* largest global_step a caller passes
MaxStep == 2
\* injected I/O failures in one behaviour
MaxFailures == 1
\* close() calls in one behaviour
MaxCloses == 2
\* constructions of a further TelemetryLogger for the same run
MaxConstructs == 1
\* the clock's value when the behaviour starts (seconds since the epoch)
Epoch0 == 100
\* seconds the clock may advance in one behaviour
MaxTime == 34
\* clock advances in one behaviour
MaxTicks == 3
\* check_control_file calls in one behaviour
MaxChecks == 3
\* writes to control.json by the external actor in one behaviour
MaxWrites == 2

(***************************************************************************)
(* Program constants.                                                      *)
(***************************************************************************)
\* "if current_time - self.last_control_check < 2"
PollFloor == 2
\* self.control_debounce = 30
ControlDebounce == 30

(***************************************************************************)
(* Python values.  Every value is a record of the same shape, so that any  *)
(* two values can be compared: t is the Python type, n the number (floats  *)
(* in thousandths), s the text.                                            *)
(***************************************************************************)
PyInt(n) == [t |-> "int", n |-> n, s |-> ""]
PyFloat(m) == [t |-> "float", n |-> m, s |-> ""]
PyNaN == [t |-> "float", n |-> 0, s |-> "nan"]
PyInf == [t |-> "float", n |-> 0, s |-> "inf"]
PyStr(s) == [t |-> "str", n |-> 0, s |-> s]
PyBool(b) == [t |-> "bool", n |-> IF b THEN 1 ELSE 0, s |-> ""]
PyNone == [t |-> "none", n |-> 0, s |-> ""]
\* a value json cannot encode (a tensor, say)
PyObject == [t |-> "object", n |-> 0, s |-> "Tensor"]

EmptyDict == [k \in {} |-> PyNone]

\* a merge in which the earlier mapping wins on a collision
Merge_FirstWins(a, b) ==
    [k \in (DOMAIN a) \cup (DOMAIN b) |-> IF k \in DOMAIN a THEN a[k] ELSE b[k]]

\* {**a, **b}: the later mapping wins on a collision
Merge(a, b) ==
    [k \in (DOMAIN a) \cup (DOMAIN b) |-> IF k \in DOMAIN b THEN b[k] ELSE a[k]]

\* {**ds[1], **ds[2], ...}
RECURSIVE MergeAll(_)
MergeAll(ds) ==
    IF ds = <<>> THEN EmptyDict
    ELSE Merge(MergeAll(SubSeq(ds, 1, Len(ds) - 1)), ds[Len(ds)])

(***************************************************************************)
(* sorted(): every key the model uses, in Python's string order.           *)
(***************************************************************************)
KeyOrder ==
    << "checkpoint_path", "cpu_mem_rss_mb", "epoch", "eval/event",
       "eval/global_step", "eval/loss", "eval/time", "eval/timestamp",
       "event", "global_step", "gpu_mem_allocated",
       "gpu_mem_reserved", "is_best", "lora_rank", "lr", "nan_inf_detected",
       "name", "new", "old", "run_name", "source", "time", "timestamp",
       "train_loss" >>

RECURSIVE SortedUpTo(_, _)
SortedUpTo(S, i) ==
    IF i = 0 THEN <<>>
    ELSE IF KeyOrder[i] \in S THEN Append(SortedUpTo(S, i - 1), KeyOrder[i])
         ELSE SortedUpTo(S, i - 1)

Sorted(S) == SortedUpTo(S, Len(KeyOrder))

Range(f) == {f[i] : i \in DOMAIN f}

(***************************************************************************)
(* json.dump and json.loads, value by value.  A JSON value is its kind j   *)
(* (the token class of the text) with its number or text.                  *)
(***************************************************************************)
Serializable(v) == v.t # "object"

JsonTok(v) ==
    CASE v.t = "int" -> [j |-> "int", n |-> v.n, s |-> ""]
      [] v.t = "float" /\ v.s = "" -> [j |-> "real", n |-> v.n, s |-> ""]
      [] v.t = "float" /\ v.s = "nan" -> [j |-> "NaN", n |-> 0, s |-> ""]
      [] v.t = "float" /\ v.s = "inf" -> [j |-> "Infinity", n |-> 0, s |-> ""]
      [] v.t = "bool" -> [j |-> IF v.n = 1 THEN "true" ELSE "false", n |-> 0, s |-> ""]
      [] v.t = "none" -> [j |-> "null", n |-> 0, s |-> ""]
      [] v.t = "str" -> [j |-> "string", n |-> 0, s |-> v.s]

JsonVal(tok) ==
    CASE tok.j = "int" -> PyInt(tok.n)
      [] tok.j = "real" -> PyFloat(tok.n)
      [] tok.j = "NaN" -> PyNaN
      [] tok.j = "Infinity" -> PyInf
      [] tok.j = "true" -> PyBool(TRUE)
      [] tok.j = "false" -> PyBool(FALSE)
      [] tok.j = "null" -> PyNone
      [] tok.j = "string" -> PyStr(tok.s)

\* the JSON object json.dump writes for a record
JsonDumps(record) == [k \in DOMAIN record |-> JsonTok(record[k])]

\* json.loads of the text of one object
JsonLoads(obj) == [k \in DOMAIN obj |-> JsonVal(obj[k])]

(***************************************************************************)
(* The csv module.  A cell is text.                                        *)
(***************************************************************************)
\* the csv writer's text for a value: None is empty, a string is itself, anything else str()
CsvCell(v) ==
    CASE v.t = "none" -> ""
      [] v.t = "str" -> v.s
      [] v.t = "int" -> ToString(v.n)
      [] v.t = "float" /\ v.s = "" -> ToString(v.n) \o "e-3"
      [] v.t = "float" /\ v.s # "" -> v.s
      [] v.t = "bool" -> IF v.n = 1 THEN "True" ELSE "False"
      [] v.t = "object" -> "<Tensor>"

\* DictWriter.writerow: the cells of rowdict in the order of fieldnames, a
\* missing key written as restval ''
RowCells(fieldnames, rowdict) ==
    [i \in 1..Len(fieldnames) |->
        IF fieldnames[i] \in DOMAIN rowdict THEN CsvCell(rowdict[fieldnames[i]]) ELSE ""]

\* DictReader: one mapping per data row, keyed by the header row
DictReaderRows(disk) ==
    [r \in 1..Len(disk.rows) |->
        [k \in Range(disk.header) |->
            PyStr(disk.rows[r][CHOOSE i \in 1..Len(disk.header) : disk.header[i] = k])]]

(***************************************************************************)
(* The paths of a run.  A path is the sequence of its parts.               *)
(***************************************************************************)
\* Path("./logs"), the default log_dir of the logger and the directory the
\* dashboard lists
LogsDir == <<"logs">>

RunName == "run"

\* self.run_log_dir = self.log_dir / run_name
RunLogDir == Append(LogsDir, RunName)

\* self.jsonl_path, self.csv_path, self.control_path
JsonlPath == Append(RunLogDir, "metrics.jsonl")

CsvPath == Append(RunLogDir, "metrics.csv")

ControlPath == Append(RunLogDir, "control.json")

\* Path(p).parent
Parent(p) == SubSeq(p, 1, Len(p) - 1)

(***************************************************************************)
(* State.                                                                  *)
(***************************************************************************)
VARIABLES
    \* the files of the run directory
    jsonl,            \* metrics.jsonl: its complete lines
    jsonl_tail,       \* number of partial fragments (no newline) at its end
    jsonl_exists,     \* whether the file has been created
    csv_disk,         \* metrics.csv: [exists, header, rows]
    control,          \* control.json: its content
    \* the TelemetryLogger object
    csv_file,         \* "None", "open" or "closed"
    csv_writer,       \* [isNone, fieldnames]: the DictWriter
    csv_fieldnames,   \* set of keys
    enable_tensorboard,
    enable_wandb,
    tb_writer,        \* "None", "open" or "closed"
    wandb_run,        \* "None", "open" or "finished"
    last_control_check,
    control_lock,     \* the thread that holds it, or "free"
    \* the clock and the threads that call check_control_file
    now,
    pc,
    current_time,
    result,
    \* what the environment observes
    lastCall,         \* the last log_* or close call and how it ended
    stepsPassed,      \* the global_step of every log_step call, in call order
    sampling,         \* what the sampler's queries did in the last log_step call
    finalized,        \* [csv, tb, wandb]: close()/finish() calls each object received
    fsReads,          \* the check_control_file calls that reached the filesystem
    served,           \* requests returned by check_control_file since control.json last changed
    superseded,       \* requests replaced inside their debounce window, the latest write excepted
    writer,           \* the dashboard's write_control_file: [pc, data]
    \* the dashboard's view of a run
    data,             \* the records load_jsonl_data returned
    issues,           \* what detect_training_issues made of them: [called, raised, found]
    loaded,           \* how the last load_jsonl_data call ended: [called, raised]
    \* the dataset creator
    folder,           \* the image folder: the content of each file in it, by name
    job,              \* the process_folder call: its locals, and what its last iteration did
    \* two training processes on one run
    loggers,          \* the TelemetryLogger of each: its CSV attributes and where its call stands
    budget            \* [calls, failures, closes, constructs, ticks, checks, writes] used so far

fileVars == <<jsonl, jsonl_tail, jsonl_exists, csv_disk>>
csvVars == <<csv_file, csv_writer, csv_fieldnames>>
integrationVars == <<enable_tensorboard, enable_wandb, tb_writer, wandb_run>>
controlVars == <<control, last_control_check, control_lock, now, pc, current_time,
                 result, fsReads, served, superseded, writer>>
observedVars == <<lastCall, stepsPassed, sampling, finalized>>
dashboardVars == <<data, issues, loaded>>
folderVars == <<folder, job>>
pairVars == <<loggers>>
vars == <<fileVars, csvVars, integrationVars, controlVars, observedVars, dashboardVars,
         folderVars, pairVars, budget>>

Threads == {"t1", "t2"}

NoWriter == [isNone |-> TRUE, fieldnames |-> <<>>]
NoCsv == [exists |-> FALSE, header |-> <<>>, rows |-> <<>>]
NoCall == [op |-> "none", raised |-> "none", errors |-> 0, trace |-> <<>>,
           record |-> <<>>, passed |-> {}, faults |-> {},
           int_errors |-> 0, tb_sent |-> {}, wandb_sent |-> {}]

(***************************************************************************)
(* Metrics Sink: metrics.jsonl.                                            *)
(***************************************************************************)
\* the calls that can be made to fail: open() of either file, the write of a
\* CSV row, add_scalar/flush of the TensorBoard writer, log() of the W&B run
SinkFaultKinds == {"jsonl_open", "csv_open", "csv_write"}

FaultKinds == SinkFaultKinds \cup {"tb_write", "wandb_write"}

\* a sink that opened the file with 'w': the earlier lines are gone
WriteJsonlBody_Truncate(f, record, faults) ==
    IF "jsonl_open" \in faults
    THEN [file |-> f, exc |-> "OSError"]
    ELSE IF \E k \in DOMAIN record : ~Serializable(record[k])
    THEN [file |-> [lines |-> <<>>, tail |-> 1], exc |-> "TypeError"]
    ELSE [file |-> [lines |-> <<[prefix |-> 0, obj |-> JsonDumps(record)]>>, tail |-> 0],
          exc |-> "none"]

\* the body of _write_jsonl's try block on file f = [lines, tail].  A value
\* json cannot encode raises TypeError after the text before it was written;
\* closing the file flushes that fragment, without a newline.
WriteJsonlBody(f, record, faults) ==
    IF "jsonl_open" \in faults
    THEN [file |-> f, exc |-> "OSError"]
    ELSE IF \E k \in DOMAIN record : ~Serializable(record[k])
    THEN [file |-> [f EXCEPT !.tail = @ + 1], exc |-> "TypeError"]
    ELSE [file |-> [lines |-> Append(f.lines, [prefix |-> f.tail, obj |-> JsonDumps(record)]),
                    tail |-> 0],
          exc |-> "none"]

\* _write_jsonl: "except Exception as e: print(...)"
WriteJsonl(f, record, faults) ==
    LET b == WriteJsonlBody(f, record, faults)
    IN  [file |-> b.file, exc |-> "none", errors |-> IF b.exc = "none" THEN 0 ELSE 1]

(***************************************************************************)
(* Metrics Sink: metrics.csv.  cs = [file, writer, fieldnames, disk].      *)
(***************************************************************************)
\* a writer that leaves the header of an existing file as it is
InitCsvWriter_StaleHeader(cs, fieldnames, faults) ==
    [cs |-> [cs EXCEPT !.file = "open",
                       !.writer = [isNone |-> FALSE, fieldnames |-> fieldnames],
                       !.disk = [exists |-> TRUE,
                                 header |-> IF cs.disk.exists THEN cs.disk.header ELSE fieldnames,
                                 rows |-> <<>>]],
     errors |-> 0]

\* _init_csv_writer, with its own try/except
InitCsvWriter(cs, fieldnames, faults) ==
    IF "csv_open" \in faults
    THEN [cs |-> cs, errors |-> 1]
    ELSE [cs |-> [cs EXCEPT !.file = "open",
                            !.writer = [isNone |-> FALSE, fieldnames |-> fieldnames],
                            !.disk = [exists |-> TRUE, header |-> fieldnames, rows |-> <<>>]],
          errors |-> 0]

\* self.csv_writer.writerow(rowdict): extra keys raise, a closed file raises
WriteRow(cs, rowdict) ==
    IF ~((DOMAIN rowdict) \subseteq Range(cs.writer.fieldnames))
    THEN [cs |-> cs, exc |-> "ValueError"]
    ELSE IF cs.file # "open"
    THEN [cs |-> cs, exc |-> "ValueError"]
    ELSE [cs |-> [cs EXCEPT !.disk.rows = Append(@, RowCells(cs.writer.fieldnames, rowdict))],
          exc |-> "none"]

\* a rewrite that forgets the rows it read
WriteRows_Forget(cs, rows, i) == [cs |-> cs, exc |-> "none"]

\* "for row in existing_data: self.csv_writer.writerow(row)", from row i on
RECURSIVE WriteRows(_, _, _)
WriteRows(cs, rows, i) ==
    IF i > Len(rows) THEN [cs |-> cs, exc |-> "none"]
    ELSE LET w == WriteRow(cs, rows[i])
         IN  IF w.exc # "none" THEN w ELSE WriteRows(w.cs, rows, i + 1)

\* "if self.csv_writer: self.csv_writer.writerow(record); self.csv_file.flush()"
WriteRecordRow(cs, record, faults) ==
    IF cs.writer.isNone THEN [cs |-> cs, exc |-> "none"]
    ELSE LET w == WriteRow(cs, record)
         IN  IF w.exc = "none" /\ "csv_write" \in faults
             THEN [cs |-> cs, exc |-> "OSError"]
             ELSE w

\* the body of _write_csv's try block
WriteCsvBody(cs, record, faults) ==
    IF cs.writer.isNone
    THEN LET fieldnames == Sorted(DOMAIN record)
             i == InitCsvWriter(cs, fieldnames, faults)
             cs1 == [i.cs EXCEPT !.fieldnames = @ \cup DOMAIN record]
             w == WriteRecordRow(cs1, record, faults)
         IN  [cs |-> w.cs, exc |-> w.exc, errors |-> i.errors]
    ELSE LET new_fields == (DOMAIN record) \ cs.fieldnames
         IN  IF new_fields # {}
             THEN LET cs1 == [cs EXCEPT !.file = "closed", !.fieldnames = @ \cup new_fields]
                      fieldnames == Sorted(cs1.fieldnames)
                      existing_data == IF cs1.disk.exists THEN DictReaderRows(cs1.disk) ELSE <<>>
                      i == InitCsvWriter(cs1, fieldnames, faults)
                      r == WriteRows(i.cs, existing_data, 1)
                      w == IF r.exc = "none" THEN WriteRecordRow(r.cs, record, faults) ELSE r
                  IN  [cs |-> w.cs, exc |-> w.exc, errors |-> i.errors]
             ELSE LET w == WriteRecordRow(cs, record, faults)
                  IN  [cs |-> w.cs, exc |-> w.exc, errors |-> 0]

\* a _write_csv without its except clause
WriteCsv_NoCatch(cs, record, faults) ==
    LET b == WriteCsvBody(cs, record, faults)
    IN  [cs |-> b.cs, exc |-> b.exc, errors |-> b.errors]

\* _write_csv: "except Exception as e: print(...)"
WriteCsv(cs, record, faults) ==
    LET b == WriteCsvBody(cs, record, faults)
    IN  [cs |-> b.cs, exc |-> "none",
         errors |-> b.errors + (IF b.exc = "none" THEN 0 ELSE 1)]

(***************************************************************************)
(* System Sampler and inline Anomaly Detector.                             *)
(***************************************************************************)
\* what the queries of one _get_system_metrics call do: psutil's memory_info,
\* torch.cuda.is_available, memory_allocated and memory_reserved
SampleEnvs ==
    [cpu : {"ok", "raises"}, cuda : BOOLEAN, allocated : {"ok", "raises"},
     reserved : {"ok", "raises"}]

\* a machine with an accelerator, and one without, every query answering
WithAccelerator == [cpu |-> "ok", cuda |-> TRUE, allocated |-> "ok", reserved |-> "ok"]

NoAccelerator == [cpu |-> "ok", cuda |-> FALSE, allocated |-> "ok", reserved |-> "ok"]

\* no log_step call has been made
NoSampling == [cpu |-> "none", cuda |-> FALSE, allocated |-> "none", reserved |-> "none"]

\* _get_system_metrics: the resident memory in its own try block; with an
\* accelerator, both of its metrics in one try block, whose except clause
\* sets both to None; without one, both None
GetSystemMetrics(env) ==
    [cpu_mem_rss_mb |-> IF env.cpu = "ok" THEN PyFloat(512000) ELSE PyNone,
     gpu_mem_allocated |->
        IF env.cuda /\ env.allocated = "ok" /\ env.reserved = "ok" THEN PyFloat(2000) ELSE PyNone,
     gpu_mem_reserved |->
        IF env.cuda /\ env.allocated = "ok" /\ env.reserved = "ok" THEN PyFloat(3000) ELSE PyNone]

\* what _get_system_metrics can return
SystemSamples == {GetSystemMetrics(env) : env \in SampleEnvs}

\* isinstance(loss, (int, float)): bool is an int
IsNumber(v) == v.t \in {"int", "float", "bool"}

\* loss != loss or abs(loss) == float('inf')
IsNanOrInf(v) == v.t = "float" /\ v.s \in {"nan", "inf"}

\* _detect_anomalies
DetectAnomalies(metrics) ==
    LET present == "train_loss" \in DOMAIN metrics /\ metrics["train_loss"] # PyNone
    IN  [nan_inf_detected |->
            IF present
            THEN PyBool(~(IsNumber(metrics["train_loss"]) /\ ~IsNanOrInf(metrics["train_loss"])))
            ELSE PyBool(FALSE)]

(***************************************************************************)
(* Event Logger.                                                           *)
(***************************************************************************)
\* datetime.now().isoformat()
IsoFormat(t) == "T" \o ToString(t)

\* "event", "time": time.time(), "timestamp": datetime.now().isoformat()
LoggerFields(event) ==
    [event |-> PyStr(event), time |-> PyFloat(now * 1000), timestamp |-> PyStr(IsoFormat(now))]

\* the entries of a mapping, as a set
Items(d) == {[k |-> k, v |-> d[k]] : k \in DOMAIN d}

\* the entries of the mapping passed as argument number pos
ItemsAt(d, pos) == {[k |-> k, v |-> d[k], pos |-> pos] : k \in DOMAIN d}

CsvState ==
    [file |-> csv_file, writer |-> csv_writer, fieldnames |-> csv_fieldnames, disk |-> csv_disk]

\* isinstance(value, (int, float)) and key not in ["global_step", "epoch", "time"]
TbScalars(record) ==
    {it \in Items(record) : IsNumber(it.v) /\ it.k \notin {"global_step", "epoch", "time"}}

\* isinstance(v, (int, float, str)) and k not in ["time"]
WandbRecord(record) ==
    {it \in Items(record) : (IsNumber(it.v) \/ it.v.t = "str") /\ it.k \notin {"time"}}

\* a _write_tensorboard without its except clause
WriteTensorboard_NoCatch(tbw, record, faults) ==
    IF tbw = "None" THEN [called |-> FALSE, sent |-> {}, exc |-> "none", errors |-> 0]
    ELSE IF "tb_write" \in faults
    THEN [called |-> TRUE, sent |-> {}, exc |-> "RuntimeError", errors |-> 0]
    ELSE [called |-> TRUE, sent |-> TbScalars(record), exc |-> "none", errors |-> 0]

\* _write_tensorboard: nothing without a writer; add_scalar for each numeric
\* entry, flush; "except Exception as e: print(...)"
WriteTensorboard(tbw, record, faults) ==
    IF tbw = "None" THEN [called |-> FALSE, sent |-> {}, exc |-> "none", errors |-> 0]
    ELSE IF "tb_write" \in faults
    THEN [called |-> TRUE, sent |-> {}, exc |-> "none", errors |-> 1]
    ELSE [called |-> TRUE, sent |-> TbScalars(record), exc |-> "none", errors |-> 0]

\* _write_wandb: nothing without a run; wandb_run.log of the filtered record;
\* "except Exception as e: print(...)"
WriteWandb(run, record, faults) ==
    IF run = "None" THEN [called |-> FALSE, sent |-> {}, exc |-> "none", errors |-> 0]
    ELSE IF "wandb_write" \in faults
    THEN [called |-> TRUE, sent |-> {}, exc |-> "none", errors |-> 1]
    ELSE [called |-> TRUE, sent |-> WandbRecord(record), exc |-> "none", errors |-> 0]

\* an integration that was not called
NotForwarded == [called |-> FALSE, sent |-> {}, exc |-> "none", errors |-> 0]

\* a logger that writes the CSV row before the JSONL line
LogRecord_CsvFirst(op, record, passed, forwards, faults) ==
    /\ budget.failures + Cardinality(faults) <= MaxFailures
    /\ \E c \in {WriteCsv(CsvState, record, faults)} :
       \E j \in {IF c.exc = "none"
                 THEN WriteJsonl([lines |-> jsonl, tail |-> jsonl_tail], record, faults)
                 ELSE [file |-> [lines |-> jsonl, tail |-> jsonl_tail], exc |-> c.exc,
                       errors |-> 0]} :
       \E tb \in {IF j.exc = "none" /\ forwards /\ enable_tensorboard
                  THEN WriteTensorboard(tb_writer, record, faults)
                  ELSE [NotForwarded EXCEPT !.exc = j.exc]} :
       \E wb \in {IF tb.exc = "none" /\ forwards /\ enable_wandb
                  THEN WriteWandb(wandb_run, record, faults)
                  ELSE [NotForwarded EXCEPT !.exc = tb.exc]} :
           /\ jsonl' = j.file.lines
           /\ jsonl_tail' = j.file.tail
           /\ jsonl_exists' = (jsonl_exists \/ "jsonl_open" \notin faults)
           /\ csv_disk' = c.cs.disk
           /\ csv_file' = c.cs.file
           /\ csv_writer' = c.cs.writer
           /\ csv_fieldnames' = c.cs.fieldnames
           /\ lastCall' = [op |-> op, raised |-> wb.exc, errors |-> j.errors + c.errors,
                           trace |-> <<"csv">>
                                     \o (IF c.exc = "none" THEN <<"jsonl">> ELSE <<>>)
                                     \o (IF tb.called THEN <<"tensorboard">> ELSE <<>>)
                                     \o (IF wb.called THEN <<"wandb">> ELSE <<>>),
                           record |-> record, passed |-> passed, faults |-> faults,
                           int_errors |-> tb.errors + wb.errors,
                           tb_sent |-> tb.sent, wandb_sent |-> wb.sent]
    /\ budget' = [budget EXCEPT !.calls = @ + 1, !.failures = @ + Cardinality(faults)]
    /\ UNCHANGED <<integrationVars, controlVars, dashboardVars, folderVars, pairVars, finalized>>

\* the common tail of every log_* method: _write_jsonl, _write_csv and, where
\* the method forwards, "if self.enable_tensorboard: self._write_tensorboard(record)"
\* and "if self.enable_wandb: self._write_wandb(record)".  A statement is
\* reached only if the one before it raised nothing.
LogRecord(op, record, passed, forwards, faults) ==
    /\ budget.failures + Cardinality(faults) <= MaxFailures
    /\ \E j \in {WriteJsonl([lines |-> jsonl, tail |-> jsonl_tail], record, faults)} :
       \E c \in {IF j.exc = "none" THEN WriteCsv(CsvState, record, faults)
                 ELSE [cs |-> CsvState, exc |-> j.exc, errors |-> 0]} :
       \E tb \in {IF c.exc = "none" /\ forwards /\ enable_tensorboard
                  THEN WriteTensorboard(tb_writer, record, faults)
                  ELSE [NotForwarded EXCEPT !.exc = c.exc]} :
       \E wb \in {IF tb.exc = "none" /\ forwards /\ enable_wandb
                  THEN WriteWandb(wandb_run, record, faults)
                  ELSE [NotForwarded EXCEPT !.exc = tb.exc]} :
           /\ jsonl' = j.file.lines
           /\ jsonl_tail' = j.file.tail
           /\ jsonl_exists' = (jsonl_exists \/ "jsonl_open" \notin faults)
           /\ csv_disk' = c.cs.disk
           /\ csv_file' = c.cs.file
           /\ csv_writer' = c.cs.writer
           /\ csv_fieldnames' = c.cs.fieldnames
           /\ lastCall' = [op |-> op, raised |-> wb.exc, errors |-> j.errors + c.errors,
                           trace |-> <<"jsonl">>
                                     \o (IF j.exc = "none" THEN <<"csv">> ELSE <<>>)
                                     \o (IF tb.called THEN <<"tensorboard">> ELSE <<>>)
                                     \o (IF wb.called THEN <<"wandb">> ELSE <<>>),
                           record |-> record, passed |-> passed, faults |-> faults,
                           int_errors |-> tb.errors + wb.errors,
                           tb_sent |-> tb.sent, wandb_sent |-> wb.sent]
    /\ budget' = [budget EXCEPT !.calls = @ + 1, !.failures = @ + Cardinality(faults)]
    /\ UNCHANGED <<integrationVars, controlVars, dashboardVars, folderVars, pairVars, finalized>>

StartInputs ==
    { <<[name |-> PyStr("run")], [lora_rank |-> PyInt(4)], EmptyDict, [lr |-> PyFloat(1)]>>,
      <<[lr |-> PyFloat(1)], EmptyDict, EmptyDict, [lr |-> PyFloat(2)]>>,
      <<[event |-> PyStr("boot")], EmptyDict, EmptyDict, EmptyDict>>,
      <<[name |-> PyStr("a")], [name |-> PyStr("b")], [name |-> PyStr("c")], EmptyDict>> }

StepMetrics ==
    { EmptyDict,
      [train_loss |-> PyFloat(500)],
      [train_loss |-> PyNaN],
      [train_loss |-> PyObject],
      [train_loss |-> PyStr("0.5")],
      [global_step |-> PyInt(7)],
      [event |-> PyStr("custom")],
      [cpu_mem_rss_mb |-> PyFloat(1000)] }

EpochMetrics == { EmptyDict, [train_loss |-> PyFloat(400)] }

EvalMetrics ==
    { [loss |-> PyFloat(300)],
      [global_step |-> PyInt(9)],
      [event |-> PyStr("boot"), time |-> PyInt(0), timestamp |-> PyStr("never"),
       global_step |-> PyInt(9)] }

\* log_start
LogStart(args, faults) ==
    /\ LogRecord("start",
                 MergeAll(<<LoggerFields("start"), [run_name |-> PyStr(RunName)],
                            args[1], args[2], args[3], args[4]>>),
                 UNION {ItemsAt(args[i], i) : i \in 1..4},
                 TRUE, faults)
    /\ UNCHANGED <<stepsPassed, sampling>>

\* log_step, on a machine whose sampler queries do what env says
LogStep(global_step, epoch, metrics, env, faults) ==
    /\ LogRecord("step",
                 MergeAll(<<LoggerFields("step"),
                            [global_step |-> PyInt(global_step), epoch |-> PyInt(epoch)],
                            metrics, GetSystemMetrics(env), DetectAnomalies(metrics)>>),
                 Items([global_step |-> PyInt(global_step), epoch |-> PyInt(epoch)])
                     \cup Items(metrics),
                 TRUE, faults)
    /\ stepsPassed' = Append(stepsPassed, global_step)
    /\ sampling' = env

\* log_epoch
LogEpoch(epoch, metrics, faults) ==
    /\ LogRecord("epoch",
                 MergeAll(<<LoggerFields("epoch"), [epoch |-> PyInt(epoch)], metrics>>),
                 Items([epoch |-> PyInt(epoch)]) \cup Items(metrics),
                 TRUE, faults)
    /\ UNCHANGED <<stepsPassed, sampling>>

\* log_checkpoint: no integration is called
LogCheckpoint(global_step, checkpoint_path, is_best, faults) ==
    /\ LogRecord("checkpoint",
                 MergeAll(<<LoggerFields("checkpoint"),
                            [global_step |-> PyInt(global_step),
                             checkpoint_path |-> PyStr(checkpoint_path),
                             is_best |-> PyBool(is_best)]>>),
                 Items([global_step |-> PyInt(global_step),
                        checkpoint_path |-> PyStr(checkpoint_path),
                        is_best |-> PyBool(is_best)]),
                 FALSE, faults)
    /\ UNCHANGED <<stepsPassed, sampling>>

\* a log_eval that stores the metrics under their own names
EvalPrefixed_Bare(metrics) == metrics

\* {f"eval/{k}": v for k, v in metrics.items()}
EvalPrefixed(metrics) ==
    [k \in {"eval/" \o x : x \in DOMAIN metrics} |->
        metrics[CHOOSE x \in DOMAIN metrics : "eval/" \o x = k]]

\* log_eval
LogEval(global_step, metrics, faults) ==
    /\ LogRecord("eval",
                 MergeAll(<<LoggerFields("eval"), [global_step |-> PyInt(global_step)],
                            EvalPrefixed(metrics)>>),
                 Items([global_step |-> PyInt(global_step)]) \cup Items(EvalPrefixed(metrics)),
                 TRUE, faults)
    /\ UNCHANGED <<stepsPassed, sampling>>

\* log_control_change: no integration is called
LogControlChange(old_value, new_value, source, faults) ==
    /\ LogRecord("control_change",
                 MergeAll(<<LoggerFields("control_change"),
                            [old |-> old_value, new |-> new_value, source |-> PyStr(source)]>>),
                 Items([old |-> old_value, new |-> new_value, source |-> PyStr(source)]),
                 FALSE, faults)
    /\ UNCHANGED <<stepsPassed, sampling>>

\* close(): every object that is set is closed, whether or not it was closed before
Close ==
    /\ budget.closes < MaxCloses
    /\ csv_file' = IF csv_file = "None" THEN "None" ELSE "closed"
    /\ tb_writer' = IF tb_writer = "None" THEN "None" ELSE "closed"
    /\ wandb_run' = IF wandb_run = "None" THEN "None" ELSE "finished"
    /\ finalized' = [csv |-> finalized.csv + (IF csv_file = "None" THEN 0 ELSE 1),
                     tb |-> finalized.tb + (IF tb_writer = "None" THEN 0 ELSE 1),
                     wandb |-> finalized.wandb + (IF wandb_run = "None" THEN 0 ELSE 1)]
    /\ lastCall' = [NoCall EXCEPT !.op = "close"]
    /\ budget' = [budget EXCEPT !.closes = @ + 1]
    /\ UNCHANGED <<dashboardVars, folderVars, pairVars, fileVars, csv_writer, csv_fieldnames, enable_tensorboard, enable_wandb,
                   controlVars, stepsPassed, sampling>>

\* the logger's fields after __init__; an integration whose import fails is disabled
NewLogger(tb, wandb) ==
    /\ csv_file' = "None"
    /\ csv_writer' = NoWriter
    /\ csv_fieldnames' = {}
    /\ enable_tensorboard' = tb
    /\ enable_wandb' = wandb
    /\ tb_writer' = IF tb THEN "open" ELSE "None"
    /\ wandb_run' = IF wandb THEN "open" ELSE "None"
    /\ last_control_check' = 0
    /\ control_lock' = "free"

\* TelemetryLogger(run_name, ...) for the same run, replacing the logger in use:
\* the run directory exists (mkdir exist_ok) and its files are left as they are
Construct(tb, wandb) ==
    /\ budget.constructs < MaxConstructs
    /\ \A th \in Threads : pc[th] = "idle"
    /\ NewLogger(tb, wandb)
    /\ finalized' = [csv |-> 0, tb |-> 0, wandb |-> 0]
    /\ lastCall' = [NoCall EXCEPT !.op = "construct"]
    /\ budget' = [budget EXCEPT !.constructs = @ + 1]
    /\ UNCHANGED <<dashboardVars, folderVars, pairVars, fileVars, control, now, pc, current_time, result, fsReads, served,
                   superseded,
                   writer, stepsPassed, sampling>>

(***************************************************************************)
(* The specification of the event logger.                                  *)
(***************************************************************************)
\* control.json does not exist
AbsentControl == [kind |-> "absent", value |-> 0, ts_kind |-> "missing", ts |-> 0]

\* what a check_control_file call returned (ret: "pending", "None" or "data"),
\* how far it got (stage: "floor", "missing" or "read") and the content it read
NoResult == [ret |-> "pending", data |-> AbsentControl, stage |-> "pending",
             seen |-> AbsentControl]

IdleWriter == [pc |-> "idle", data |-> AbsentControl]

\* nothing has been loaded, detect_training_issues has not been called
NoIssues == [called |-> FALSE, raised |-> "none", found |-> {}]

\* load_jsonl_data has not been called
NoLoad == [called |-> FALSE, raised |-> "none"]

\* a file name, as Path splits it
Name(stem, suffix) == [stem |-> stem, suffix |-> suffix]

\* no folder has been chosen
NoFiles == [n \in {} |-> ""]

NoOptions == [skip_if_txt_exists |-> FALSE, overwrite_txt |-> FALSE]

\* no iteration of process_folder has run
NoIteration ==
    [src |-> Name("", ""), want |-> Name("", ""), dst |-> Name("", ""), stage |-> "none",
     provider |-> "not_called"]

\* process_folder has not been called
NoJob ==
    [status |-> "idle", options |-> NoOptions, images |-> <<>>, idx |-> 0, renamed |-> 0,
     created_txt |-> 0, skipped |-> 0, last |-> NoIteration]

\* the training processes that share a run
Procs == {"p1", "p2"}

\* a TelemetryLogger after __init__, before its first log_* call
NoLogger ==
    [file |-> "None", writer |-> NoWriter, fieldnames |-> {},
     at_end |-> FALSE, pc |-> "idle", existing_data |-> <<>>, record |-> EmptyDict,
     calls |-> 0, last |-> "none"]

NoLoggers == [l \in Procs |-> NoLogger]

\* an empty run directory and a logger constructed with the flags tb and wandb
NewRun(tb, wandb) ==
    /\ jsonl = <<>>
    /\ jsonl_tail = 0
    /\ jsonl_exists = FALSE
    /\ csv_disk = NoCsv
    /\ control = AbsentControl
    /\ csv_file = "None"
    /\ csv_writer = NoWriter
    /\ csv_fieldnames = {}
    /\ enable_tensorboard = tb
    /\ enable_wandb = wandb
    /\ tb_writer = IF enable_tensorboard THEN "open" ELSE "None"
    /\ wandb_run = IF enable_wandb THEN "open" ELSE "None"
    /\ last_control_check = 0
    /\ control_lock = "free"
    /\ now = Epoch0
    /\ pc = [th \in Threads |-> "idle"]
    /\ current_time = [th \in Threads |-> 0]
    /\ result = [th \in Threads |-> NoResult]
    /\ lastCall = NoCall
    /\ stepsPassed = <<>>
    /\ sampling = NoSampling
    /\ finalized = [csv |-> 0, tb |-> 0, wandb |-> 0]
    /\ fsReads = <<>>
    /\ served = 0
    /\ superseded = {}
    /\ writer = IdleWriter
    /\ budget = [calls |-> 0, failures |-> 0, closes |-> 0, constructs |-> 0,
                 ticks |-> 0, checks |-> 0, writes |-> 0]

Init ==
    /\ NewRun(FALSE, FALSE)
    /\ data = <<>>
    /\ issues = NoIssues
    /\ loaded = NoLoad
    /\ folder = NoFiles
    /\ job = NoJob
    /\ loggers = NoLoggers

\* the metrics of a log_step call and the machine it is made on
StepInputs ==
    {<<m, WithAccelerator>> : m \in StepMetrics} \cup {<<EmptyDict, NoAccelerator>>}

\* the training loop's step counter only grows
NextSteps == {g \in 1..MaxStep : stepsPassed = <<>> \/ g > stepsPassed[Len(stepsPassed)]}

\* the training loop: any log_* call, and close()
Next ==
    \/ \E args \in StartInputs : budget.calls < MaxRecords /\ LogStart(args, {})
    \/ \E g \in NextSteps, in \in StepInputs :
          budget.calls < MaxRecords /\ LogStep(g, 0, in[1], in[2], {})
    \/ \E m \in EpochMetrics : budget.calls < MaxRecords /\ LogEpoch(0, m, {})
    \/ budget.calls < MaxRecords /\ LogCheckpoint(1, "ckpt", TRUE, {})
    \/ \E m \in EvalMetrics : budget.calls < MaxRecords /\ LogEval(1, m, {})
    \/ budget.calls < MaxRecords /\ LogControlChange(PyInt(10), PyInt(20), "dashboard", {})
    \/ Close

Spec == Init /\ [][Next]_vars

(***************************************************************************)
(* The specification of the sinks under failure: every log_* method with   *)
(* injected I/O failures, close(), and a further logger for the same run.  *)
(***************************************************************************)
InitIO ==
    /\ \E tb, wandb \in BOOLEAN : NewRun(tb, wandb)
    /\ data = <<>>
    /\ issues = NoIssues
    /\ loaded = NoLoad
    /\ folder = NoFiles
    /\ job = NoJob
    /\ loggers = NoLoggers

\* the failures injected into one call
Faults ==
    {f \in SUBSET FaultKinds :
        /\ budget.failures + Cardinality(f) <= MaxFailures
        /\ "tb_write" \in f => (enable_tensorboard /\ tb_writer # "None")
        /\ "wandb_write" \in f => (enable_wandb /\ wandb_run # "None")}

\* the failures injected into a call that forwards to no integration
SinkFaults == {f \in Faults : f \subseteq SinkFaultKinds}

NextIO ==
    \/ \E faults \in Faults :
          /\ budget.calls < MaxIOCalls
          /\ LogStart(<<EmptyDict, EmptyDict, EmptyDict, EmptyDict>>, faults)
    \/ \E g \in NextSteps, m \in {EmptyDict, [train_loss |-> PyObject]}, faults \in Faults :
          /\ budget.calls < MaxIOCalls
          /\ LogStep(g, 0, m, NoAccelerator, faults)
    \/ \E faults \in Faults : budget.calls < MaxIOCalls /\ LogEpoch(0, EmptyDict, faults)
    \/ \E faults \in SinkFaults :
          budget.calls < MaxIOCalls /\ LogCheckpoint(1, "ckpt", TRUE, faults)
    \/ \E faults \in Faults :
          budget.calls < MaxIOCalls /\ LogEval(1, [loss |-> PyFloat(300)], faults)
    \/ \E faults \in SinkFaults :
          /\ budget.calls < MaxIOCalls
          /\ LogControlChange(PyInt(10), PyInt(20), "dashboard", faults)
    \/ Close
    \/ Construct(enable_tensorboard, enable_wandb)

SpecIO == InitIO /\ [][NextIO]_vars

(***************************************************************************)
(* The reader of metrics.jsonl.                                            *)
(***************************************************************************)
\* load_jsonl_data: the lines that parse, in file order.  A line that was
\* appended to a partial fragment does not parse; neither does a trailing
\* fragment.
LoadJsonl(lines) ==
    LET parsable == SelectSeq(lines, LAMBDA l : l.prefix = 0)
    IN  [i \in 1..Len(parsable) |-> JsonLoads(parsable[i].obj)]

\* the lines "for line in f" yields: the complete lines and, when the file
\* ends in fragments, one more line, without a newline
PhysicalLines(lines, tail) ==
    lines \o (IF tail > 0 THEN <<[prefix |-> tail, obj |-> JsonDumps(EmptyDict)]>> ELSE <<>>)

\* json.loads(line) of a line that is not blank: a line that begins with the
\* fragment of an object that was never closed is not JSON
ParseLine(l) ==
    IF l.prefix > 0
    THEN [exc |-> "JSONDecodeError", value |-> EmptyDict]
    ELSE [exc |-> "none", value |-> JsonLoads(l.obj)]

\* the loop of load_jsonl_data from line i on, data collected so far in acc:
\* "except json.JSONDecodeError: continue"
RECURSIVE LoadLines(_, _, _)
LoadLines(lines, i, acc) ==
    IF i > Len(lines) THEN [data |-> acc, raised |-> "none"]
    ELSE LET p == ParseLine(lines[i])
         IN  IF p.exc = "JSONDecodeError" THEN LoadLines(lines, i + 1, acc)
             ELSE LoadLines(lines, i + 1, Append(acc, p.value))

\* a reader that gives up at the first line that does not parse and does not
\* expect the file to be missing
LoadJsonlData_NoCatch(exists, lines, tail) ==
    IF ~exists THEN [data |-> <<>>, raised |-> "FileNotFoundError"]
    ELSE IF \E i \in 1..Len(PhysicalLines(lines, tail)) : PhysicalLines(lines, tail)[i].prefix > 0
    THEN [data |-> <<>>, raised |-> "JSONDecodeError"]
    ELSE LoadLines(PhysicalLines(lines, tail), 1, <<>>)

\* load_jsonl_data(file_path): [data, raised].  open() of a missing file
\* raises FileNotFoundError, which is passed over with data still empty.
LoadJsonlData(exists, lines, tail) ==
    IF ~exists THEN [data |-> <<>>, raised |-> "none"]
    ELSE LoadLines(PhysicalLines(lines, tail), 1, <<>>)

LogOps == {"start", "step", "epoch", "checkpoint", "eval", "control_change"}

IsPrefix(a, b) == Len(a) <= Len(b) /\ SubSeq(b, 1, Len(a)) = a

\* no write of metrics.jsonl has failed: no fragment in it, none at its end
JsonlClean == jsonl_tail = 0 /\ \A i \in 1..Len(jsonl) : jsonl[i].prefix = 0

\* the column of key k in header h
Column(h, k) == CHOOSE i \in 1..Len(h) : h[i] = k

(***************************************************************************)
(* Claims about the event logger and its sinks.                            *)
(***************************************************************************)

\* C1: when no write has failed, the records of metrics.jsonl whose event is
\* "step", read back in file order, carry the global_step values passed to
\* log_step, in call order.
C1_StepsReadBack ==
    JsonlClean =>
        LET steps == SelectSeq(LoadJsonl(jsonl), LAMBDA r : r["event"] = PyStr("step"))
        IN  /\ Len(steps) = Len(stepsPassed)
            /\ \A i \in 1..Len(steps) : steps[i]["global_step"] = PyInt(stepsPassed[i])

\* C3: when a log_* call without I/O failure brings a key that no earlier
\* record of this logger had, the CSV header afterwards contains the key,
\* every row the file held is still there, in place, with its values under
\* their columns and an empty cell under each new column, and the last row
\* holds the record's values; and until close() is called the rows are the
\* records logged, one each.
C3_SchemaGrowth ==
    [][ ( /\ budget'.calls = budget.calls + 1
          /\ ~csv_writer.isNone
          /\ (DOMAIN lastCall'.record) \ csv_fieldnames # {}
          /\ lastCall'.faults = {} )
        =>
        LET rec == lastCall'.record
            old == csv_disk
            new == csv_disk'
        IN  /\ (DOMAIN rec) \subseteq Range(new.header)
            /\ Len(new.rows) = Len(old.rows) + 1
            /\ \A r \in 1..Len(old.rows) :
                  /\ \A k \in Range(old.header) :
                        /\ k \in Range(new.header)
                        /\ new.rows[r][Column(new.header, k)] = old.rows[r][Column(old.header, k)]
                  /\ \A k \in Range(new.header) \ Range(old.header) :
                        new.rows[r][Column(new.header, k)] = ""
            /\ \A k \in DOMAIN rec :
                  new.rows[Len(new.rows)][Column(new.header, k)] = CsvCell(rec[k])
            /\ budget.closes = 0 => Len(new.rows) = budget'.calls
      ]_vars

\* a third record brought a new key into a CSV file that held two rows
C3_Witness ==
    /\ lastCall.op \in LogOps
    /\ Len(csv_disk.rows) = 3
    /\ \E k \in DOMAIN lastCall.record :
          /\ csv_disk.rows[3][Column(csv_disk.header, k)] # ""
          /\ csv_disk.rows[1][Column(csv_disk.header, k)] = ""
          /\ csv_disk.rows[2][Column(csv_disk.header, k)] = ""

\* the keys a log_* method sets itself
LoggerKeys ==
    {"event", "time", "timestamp", "run_name", "cpu_mem_rss_mb", "gpu_mem_allocated",
     "gpu_mem_reserved", "nan_inf_detected"}

\* C4: when a log_* call is passed every key once, none of them a key the
\* logger sets itself, and json can encode the values, the line the call
\* appends parses as JSON to a mapping that contains event, time and
\* timestamp and every key passed (an eval metric k as eval/k), with the
\* value passed.
C4_RoundTrip ==
    ( /\ lastCall.op \in LogOps
      /\ lastCall.errors = 0
      /\ \A p, q \in lastCall.passed : p.k = q.k => p = q
      /\ \A p \in lastCall.passed : p.k \notin LoggerKeys )
    =>
        /\ jsonl # <<>>
        /\ jsonl[Len(jsonl)].prefix = 0
        /\ LET r == JsonLoads(jsonl[Len(jsonl)].obj)
           IN  /\ {"event", "time", "timestamp"} \subseteq DOMAIN r
               /\ \A p \in lastCall.passed : p.k \in DOMAIN r /\ r[p.k] = p.v

\* C5: close() closes or finalizes no object a second time.
C5_CloseOnce ==
    /\ finalized.csv <= 1
    /\ finalized.tb <= 1
    /\ finalized.wandb <= 1

\* C6: no log_* call raises to its caller, with or without an I/O failure in
\* it or before it, and a failure to open metrics.jsonl is reported.
C6_NeverRaises ==
    /\ lastCall.raised = "none"
    /\ "jsonl_open" \in lastCall.faults => lastCall.errors >= 1

\* a log_* call in which a write to metrics.csv failed and was reported
C6_Witness ==
    /\ lastCall.op \in LogOps
    /\ lastCall.faults \cap {"csv_open", "csv_write"} # {}
    /\ lastCall.errors >= 1
    /\ lastCall.raised = "none"

\* C7: every step of the logger (log_* calls, close(), a further logger for
\* the run) leaves the complete lines of metrics.jsonl in place and unchanged.
C7_AppendOnly == [][IsPrefix(jsonl, jsonl')]_vars

\* a line was appended by a further logger, after a close(), behind an earlier line
C7_Witness ==
    /\ budget.constructs >= 1
    /\ budget.closes >= 1
    /\ lastCall.op \in LogOps
    /\ Len(jsonl) >= 2

(***************************************************************************)
(* Control Channel.  control.json is [kind, value, ts_kind, ts]:           *)
(*   kind     "absent", "partial" (truncated, not yet written), "invalid"  *)
(*            (not JSON), "nonobject" (JSON, but no mapping) or "object";  *)
(*   value    the log_every setting of an object;                          *)
(*   ts_kind  "number", "missing" or "string": its timestamp entry;        *)
(*   ts       the timestamp when it is a number.                           *)
(***************************************************************************)
Request(v, t) == [kind |-> "object", value |-> v, ts_kind |-> "number", ts |-> t]

\* a request as the data model defines it: a mapping with a numeric timestamp
WellFormed(c) == c.kind = "object" /\ c.ts_kind = "number"

\* what an actor other than write_control_file may leave in control.json
MalformedContents ==
    { [kind |-> "invalid", value |-> 0, ts_kind |-> "missing", ts |-> 0],
      [kind |-> "nonobject", value |-> 0, ts_kind |-> "missing", ts |-> 0],
      [kind |-> "object", value |-> 5, ts_kind |-> "missing", ts |-> 0],
      [kind |-> "object", value |-> 5, ts_kind |-> "string", ts |-> 0] }

Settings == {10, 20}

\* a rate limit that is one second short
RateLimited_OffByOne(t, last) == t - last < PollFloor - 1

\* "if current_time - self.last_control_check < 2: return None"
RateLimited(t, last) == t - last < PollFloor

\* a debounce that still holds the request back at exactly T + 30
Debounced_Inclusive(t, change_time) == t - change_time <= ControlDebounce

\* "if current_time - change_time < self.control_debounce: return None"
Debounced(t, change_time) == t - change_time < ControlDebounce

\* a channel that removes the request it returns
ControlAfterRead_Consume(c, returned) == IF returned THEN AbsentControl ELSE c

\* control.json after check_control_file has read it: the method only reads
ControlAfterRead(c, returned) == c

\* a check_control_file without the debounce test
ReadControl_NoDebounce(c, t) ==
    IF c.kind # "object" THEN "None"
    ELSE IF c.ts_kind = "string" THEN "None"
    ELSE "data"

\* the try block of check_control_file on content c at call time t: the
\* value returned, "None" standing for None.  open() raises on a missing
\* file, json.load on text that is not JSON, .get on a value that is no
\* mapping, the subtraction on a timestamp that is a string; every
\* exception is caught and None returned.  A missing timestamp reads as 0.
ReadControl(c, t) ==
    IF c.kind # "object" THEN "None"
    ELSE IF c.ts_kind = "string" THEN "None"
    ELSE LET change_time == IF c.ts_kind = "number" THEN c.ts ELSE 0
         IN  IF Debounced(t, change_time) THEN "None" ELSE "data"

\* check_control_file, "current_time = time.time()", before the lock is taken
CheckStart(th) ==
    /\ pc[th] = "idle"
    /\ budget.checks < MaxChecks
    /\ current_time' = [current_time EXCEPT ![th] = now]
    /\ result' = [result EXCEPT ![th] = NoResult]
    /\ pc' = [pc EXCEPT ![th] = "lock"]
    /\ budget' = [budget EXCEPT !.checks = @ + 1]
    /\ UNCHANGED <<dashboardVars, folderVars, pairVars, fileVars, csvVars, integrationVars, observedVars, control,
                   last_control_check, control_lock, now, fsReads, served, superseded, writer>>

\* "with self.control_lock:" and the poll floor
CheckFloor(th) ==
    /\ pc[th] = "lock"
    /\ control_lock = "free"
    /\ IF RateLimited(current_time[th], last_control_check)
       THEN /\ result' = [result EXCEPT ![th] = [NoResult EXCEPT !.ret = "None", !.stage = "floor"]]
            /\ pc' = [pc EXCEPT ![th] = "idle"]
            /\ UNCHANGED <<last_control_check, control_lock, fsReads>>
       ELSE /\ last_control_check' = current_time[th]
            /\ control_lock' = th
            /\ fsReads' = Append(fsReads, current_time[th])
            /\ pc' = [pc EXCEPT ![th] = "exists"]
            /\ UNCHANGED result
    /\ UNCHANGED <<dashboardVars, folderVars, pairVars, fileVars, csvVars, integrationVars, observedVars, control, now,
                   current_time, served, superseded, writer, budget>>

\* "if not self.control_path.exists(): return None"
CheckExists(th) ==
    /\ pc[th] = "exists"
    /\ IF control.kind = "absent"
       THEN /\ result' = [result EXCEPT ![th] = [NoResult EXCEPT !.ret = "None", !.stage = "missing"]]
            /\ pc' = [pc EXCEPT ![th] = "idle"]
            /\ control_lock' = "free"
       ELSE /\ pc' = [pc EXCEPT ![th] = "read"]
            /\ UNCHANGED <<result, control_lock>>
    /\ UNCHANGED <<dashboardVars, folderVars, pairVars, fileVars, csvVars, integrationVars, observedVars, control,
                   last_control_check, now, current_time, fsReads, served, superseded, writer,
                   budget>>

\* the try block: open, json.load, the debounce test, the return
CheckRead(th) ==
    /\ pc[th] = "read"
    /\ \E ret \in {ReadControl(control, current_time[th])} :
          /\ result' = [result EXCEPT ![th] =
                           [ret |-> ret,
                            data |-> IF ret = "data" THEN control ELSE AbsentControl,
                            stage |-> "read", seen |-> control]]
          /\ control' = ControlAfterRead(control, ret = "data")
          /\ served' = IF ret = "data" THEN served + 1 ELSE served
    /\ pc' = [pc EXCEPT ![th] = "idle"]
    /\ control_lock' = "free"
    /\ UNCHANGED <<dashboardVars, folderVars, pairVars, fileVars, csvVars, integrationVars, observedVars, last_control_check,
                   now, current_time, fsReads, superseded, writer, budget>>

\* the requests replaced inside their debounce window, once content c has
\* been replaced at time t
Replaced(c, t) ==
    IF WellFormed(c) /\ Debounced(t, c.ts) THEN superseded \cup {c} ELSE superseded

\* get_available_runs: "path": str(metrics_file), which main() passes on as
\* selected_run["path"]
SelectedRunPath == JsonlPath

\* a writer that takes run_path for the file to write
ControlFileOf_RunPath(run_path) == run_path

\* "run_dir = Path(run_path).parent; control_file = run_dir / 'control.json'"
ControlFileOf(run_path) == Append(Parent(run_path), "control.json")

\* a writer that opens the file without truncating it and writes over what
\* it holds: until the write is complete a request in the file keeps its
\* old timestamp beside the new setting
Opened_InPlace(c, d) ==
    IF c.kind = "object" THEN [c EXCEPT !.value = d.value]
    ELSE [AbsentControl EXCEPT !.kind = "partial"]

\* the content of a file that held c, once open(control_file, 'w') has
\* returned and before control_data d is written: the file is empty
Opened(c, d) == [AbsentControl EXCEPT !.kind = "partial"]

\* write_control_file, up to open(control_file, 'w'): the timestamp is taken
\* and the file the path names is truncated
WriteControlOpen(v) ==
    /\ writer.pc = "idle"
    /\ budget.writes < MaxWrites
    /\ writer' = [pc |-> "writing", data |-> Request(v, now)]
    /\ \E control_file \in {ControlFileOf(SelectedRunPath)} :
          /\ control' = IF control_file = ControlPath
                        THEN Opened(control, Request(v, now)) ELSE control
          /\ jsonl' = IF control_file = JsonlPath THEN <<>> ELSE jsonl
          /\ jsonl_tail' = IF control_file = JsonlPath THEN 0 ELSE jsonl_tail
          /\ csv_disk' = IF control_file = CsvPath
                         THEN [exists |-> TRUE, header |-> <<>>, rows |-> <<>>] ELSE csv_disk
    /\ served' = 0
    /\ superseded' = Replaced(control, now) \ {Request(v, now)}
    /\ budget' = [budget EXCEPT !.writes = @ + 1]
    /\ UNCHANGED <<dashboardVars, folderVars, pairVars, jsonl_exists, csvVars, integrationVars, observedVars,
                   last_control_check, control_lock, now, pc, current_time, result, fsReads>>

\* write_control_file, json.dump(control_data, f, indent=2) and the close of
\* the file: the text of the object, on several lines and without a final
\* newline, is the whole content of the file the path names
WriteControlDump ==
    /\ writer.pc = "writing"
    /\ \E control_file \in {ControlFileOf(SelectedRunPath)} :
          /\ control' = IF control_file = ControlPath THEN writer.data ELSE control
          /\ jsonl_tail' = IF control_file = JsonlPath THEN 1 ELSE jsonl_tail
          /\ csv_disk' = IF control_file = CsvPath
                         THEN [exists |-> TRUE, header |-> <<"{">>, rows |-> <<>>] ELSE csv_disk
    /\ writer' = IdleWriter
    /\ UNCHANGED <<dashboardVars, folderVars, pairVars, jsonl, jsonl_exists, csvVars, integrationVars, observedVars,
                   last_control_check, control_lock, now, pc, current_time, result, fsReads,
                   served, superseded, budget>>

\* another actor replaces control.json with content that is no request
ExternalWrite(c) ==
    /\ writer.pc = "idle"
    /\ budget.writes < MaxWrites
    /\ control' = c
    /\ served' = 0
    /\ superseded' = Replaced(control, now)
    /\ budget' = [budget EXCEPT !.writes = @ + 1]
    /\ UNCHANGED <<dashboardVars, folderVars, pairVars, fileVars, csvVars, integrationVars, observedVars, last_control_check,
                   control_lock, now, pc, current_time, result, fsReads, writer>>

\* another actor removes control.json
DeleteControl ==
    /\ writer.pc = "idle"
    /\ control.kind # "absent"
    /\ budget.writes < MaxWrites
    /\ control' = AbsentControl
    /\ served' = 0
    /\ superseded' = Replaced(control, now)
    /\ budget' = [budget EXCEPT !.writes = @ + 1]
    /\ UNCHANGED <<dashboardVars, folderVars, pairVars, fileVars, csvVars, integrationVars, observedVars, last_control_check,
                   control_lock, now, pc, current_time, result, fsReads, writer>>

\* the steps of the clock: below the poll floor, the poll floor, and one
\* second less than the debounce window, so that sums land on both sides of
\* each threshold and on the thresholds themselves
TickSteps == {PollFloor - 1, PollFloor, ControlDebounce - 1}

\* the clock advances by d seconds
Tick(d) ==
    /\ budget.ticks < MaxTicks
    /\ now + d <= Epoch0 + MaxTime
    /\ now' = now + d
    /\ budget' = [budget EXCEPT !.ticks = @ + 1]
    /\ UNCHANGED <<dashboardVars, folderVars, pairVars, fileVars, csvVars, integrationVars, observedVars, control,
                   last_control_check, control_lock, pc, current_time, result, fsReads,
                   served, superseded, writer>>

NextControl ==
    \/ \E th \in Threads : CheckStart(th)
    \/ \E th \in Threads : CheckFloor(th)
    \/ \E th \in Threads : CheckExists(th)
    \/ \E th \in Threads : CheckRead(th)
    \/ \E v \in Settings : WriteControlOpen(v)
    \/ WriteControlDump
    \/ \E c \in MalformedContents : ExternalWrite(c)
    \/ DeleteControl
    \/ \E d \in TickSteps : Tick(d)

\* The run the dashboard has selected: get_available_runs offers a run only
\* when its metrics.jsonl holds a start record, so the training process has
\* called log_start, and both files hold that record.
InitControl ==
    /\ now = Epoch0
    /\ \E record \in {MergeAll(<<LoggerFields("start"), [run_name |-> PyStr(RunName)]>>)} :
       \E j \in {WriteJsonl([lines |-> <<>>, tail |-> 0], record, {})} :
       \E c \in {WriteCsv([file |-> "None", writer |-> NoWriter, fieldnames |-> {},
                           disk |-> NoCsv], record, {})} :
          /\ jsonl = j.file.lines
          /\ jsonl_tail = j.file.tail
          /\ jsonl_exists = TRUE
          /\ csv_disk = c.cs.disk
          /\ csv_file = c.cs.file
          /\ csv_writer = c.cs.writer
          /\ csv_fieldnames = c.cs.fieldnames
    /\ control = AbsentControl
    /\ enable_tensorboard = FALSE
    /\ enable_wandb = FALSE
    /\ tb_writer = "None"
    /\ wandb_run = "None"
    /\ last_control_check = 0
    /\ control_lock = "free"
    /\ pc = [th \in Threads |-> "idle"]
    /\ current_time = [th \in Threads |-> 0]
    /\ result = [th \in Threads |-> NoResult]
    /\ lastCall = NoCall
    /\ stepsPassed = <<>>
    /\ sampling = NoSampling
    /\ finalized = [csv |-> 0, tb |-> 0, wandb |-> 0]
    /\ fsReads = <<>>
    /\ served = 0
    /\ superseded = {}
    /\ writer = IdleWriter
    /\ data = <<>>
    /\ issues = NoIssues
    /\ loaded = NoLoad
    /\ folder = NoFiles
    /\ job = NoJob
    /\ loggers = NoLoggers
    /\ budget = [calls |-> 0, failures |-> 0, closes |-> 0, constructs |-> 0,
                 ticks |-> 0, checks |-> 0, writes |-> 0]

SpecControl == InitControl /\ [][NextControl]_vars

\* the check_control_file calls that have returned after reading control.json
ReadCalls == {th \in Threads : result[th].stage = "read"}

\* C2: Debounce.  A call that read a control file written at time T with
\* value V returns None when it was made before T + 30 s, and returns the
\* request carrying V when it was made at or after T + 30 s (such a call
\* has passed the poll floor, or it would not have read the file).  Calls
\* that did not read the file return None.
C2_Debounce ==
    \A th \in Threads :
        /\ result[th].stage \in {"floor", "missing"} => result[th].ret = "None"
        /\ (th \in ReadCalls /\ WellFormed(result[th].seen)) =>
              IF current_time[th] < result[th].seen.ts + ControlDebounce
              THEN result[th].ret = "None"
              ELSE /\ result[th].ret = "data"
                   /\ result[th].data = result[th].seen
                   /\ result[th].data.value = result[th].seen.value

\* a request is returned by a call made exactly 30 s after it was written,
\* after an earlier call inside the window
C2_Witness ==
    \E th \in Threads :
        /\ th \in ReadCalls
        /\ WellFormed(result[th].seen)
        /\ result[th].ret = "data"
        /\ current_time[th] = result[th].seen.ts + ControlDebounce
        /\ Len(fsReads) >= 2

\* C8: a malformed control file is never actionable.  A call that read a
\* control.json holding invalid JSON, or a value lacking the timestamp
\* field, returns None.
C8_MalformedIgnored ==
    \A th \in ReadCalls :
        ~WellFormed(result[th].seen) => result[th].ret = "None"

\* C9: Poll rate limit.  Any two calls that reached the filesystem were made
\* at least 2 s apart, whichever threads made them; a call made less than 2 s
\* after the last such call returns None, leaves control.json untouched and
\* unread and last_control_check unchanged; last_control_check never
\* decreases.
C9_Apart ==
    \A i, j \in DOMAIN fsReads : i < j => fsReads[j] - fsReads[i] >= PollFloor

C9_Limited ==
    /\ last_control_check' >= last_control_check
    /\ \A th \in Threads :
          (/\ pc[th] = "lock"
           /\ pc'[th] # "lock"
           /\ current_time[th] - last_control_check < PollFloor) =>
              /\ pc'[th] = "idle"
              /\ result'[th].ret = "None"
              /\ result'[th].stage = "floor"
              /\ fsReads' = fsReads
              /\ control' = control
              /\ last_control_check' = last_control_check

C9_RateLimit == [](C9_Apart) /\ [][C9_Limited]_vars

\* both threads have called; one reached the file twice, and the other, made
\* less than 2 s after a call that reached it, was turned away
C9_Witness ==
    /\ Len(fsReads) >= 2
    /\ \E th \in Threads :
          /\ result[th].stage = "floor"
          /\ current_time[th] - last_control_check < PollFloor
          /\ current_time[th] >= fsReads[1]
    /\ \A th \in Threads : result[th].stage # "pending"

\* C10: the control channel never consumes a request.  No step of
\* check_control_file changes control.json, and a poll that reads a request
\* whose debounce window has elapsed returns it, however often it has been
\* returned before.
C10_Step ==
    /\ pc' # pc => control' = control
    /\ \A th \in Threads :
          (/\ pc[th] = "read"
           /\ pc'[th] = "idle"
           /\ WellFormed(control)
           /\ current_time[th] - control.ts >= ControlDebounce) =>
              /\ result'[th].ret = "data"
              /\ result'[th].data = control

C10_NeverConsumes == [][C10_Step]_vars

\* the same request has been returned by two polls
C10_Witness ==
    /\ served >= 2
    /\ WellFormed(control)
    /\ \E th \in Threads : result[th].ret = "data" /\ result[th].data = control

(***************************************************************************)
(* Claims about the inline anomaly flag and the records' fields.           *)
(***************************************************************************)
\* the train_loss entries of the metrics passed to the last call
PassedLoss == {p \in lastCall.passed : p.k = "train_loss"}

\* C11: a step record written to metrics.jsonl holds nan_inf_detected = true
\* if and only if the metrics passed to log_step contain train_loss and its
\* value is NaN or +/-infinity; a finite or absent train_loss gives false.
C11_NanInfFlag ==
    (lastCall.op = "step" /\ lastCall.errors = 0) =>
        /\ "nan_inf_detected" \in DOMAIN lastCall.record
        /\ (lastCall.record["nan_inf_detected"] = PyBool(TRUE))
              <=> (\E p \in PassedLoss : IsNanOrInf(p.v))
        /\ (lastCall.record["nan_inf_detected"] = PyBool(FALSE))
              <=> ~(\E p \in PassedLoss : IsNanOrInf(p.v))

(***************************************************************************)
(* The dashboard's windowed detector, detect_training_issues.  Numbers are *)
(* in thousandths and the arithmetic is exact.                             *)
(***************************************************************************)
\* records the detector is given in one behaviour, at most
MaxData == 22

\* step_records[-50:]
DetectWindow == 50
\* "if len(losses) > 20" and losses[-20:]
PlateauSpan == 20
\* "if len(val_losses) > 10"
OverfitNeeded == 10
\* val_losses[-5:] and val_losses[-10:-5]
OverfitSpan == 5

\* r.get(k)
Get(r, k) == IF k \in DOMAIN r THEN r[k] ELSE PyNone

\* r.get(k, default)
GetOr(r, k, default) == IF k \in DOMAIN r THEN r[k] ELSE default

\* bool(v)
Truthy(v) ==
    CASE v.t = "none" -> FALSE
      [] v.t = "str" -> v.s # ""
      [] v.t = "object" -> TRUE
      [] OTHER -> v.n # 0 \/ v.s # ""

\* a finite Python number, in thousandths
Num(v) == IF v.t = "float" THEN v.n ELSE 1000 * v.n

\* s[-n:]
LastN(s, n) == IF Len(s) <= n THEN s ELSE SubSeq(s, Len(s) - n + 1, Len(s))

\* s[-2n:-n]
BeforeLastN(s, n) ==
    IF Len(s) <= n THEN <<>>
    ELSE SubSeq(s, IF Len(s) <= 2 * n THEN 1 ELSE Len(s) - 2 * n + 1, Len(s) - n)

RECURSIVE Sum(_)
Sum(xs) == IF xs = <<>> THEN 0 ELSE xs[1] + Sum(Tail(xs))

RECURSIVE Max(_)
Max(xs) == IF Len(xs) = 1 THEN xs[1]
           ELSE LET m == Max(Tail(xs)) IN IF xs[1] > m THEN xs[1] ELSE m

Nums(vs) == [i \in 1..Len(vs) |-> Num(vs[i])]

Squares(xs) == [i \in 1..Len(xs) |-> xs[i] * xs[i]]

\* the values of key k in the records that have one: "if r.get(k) is not None"
Recorded(records, k) ==
    LET having == SelectSeq(records, LAMBDA r : Get(r, k) # PyNone)
    IN  [i \in 1..Len(having) |-> having[i][k]]

\* np.std(xs) < 0.01 * abs(np.mean(xs)) and np.mean(xs) > 0.001, for finite
\* xs: with S the sum and Q the sum of squares of n values, the population
\* variance is (n*Q - S*S) / n^2 and the mean S / n
FlatAndAboveFloor(xs) ==
    LET n == Len(xs)
        S == Sum(xs)
        Q == Sum(Squares(xs))
    IN  /\ S * S >= 1
        /\ n * Q - S * S <= (S * S - 1) \div 10000
        /\ S > n

\* lines 123-129: NaN or infinity among the losses makes every comparison false
PlateauDetected(losses) ==
    /\ Len(losses) > PlateauSpan
    /\ \A i \in 1..Len(LastN(losses, PlateauSpan)) :
          ~IsNanOrInf(LastN(losses, PlateauSpan)[i])
    /\ FlatAndAboveFloor(Nums(LastN(losses, PlateauSpan)))

\* lines 132-136
HighGradient(grad_norms) == grad_norms # <<>> /\ Max(Nums(grad_norms)) > 10000

\* lines 144-150: np.mean(recent_val) > np.mean(earlier_val) * 1.1
Overfitting(val_losses) ==
    /\ Len(val_losses) > OverfitNeeded
    /\ LET recent_val == LastN(val_losses, OverfitSpan)
           earlier_val == BeforeLastN(val_losses, OverfitSpan)
       IN  /\ Len(recent_val) = OverfitSpan
           /\ Len(earlier_val) = OverfitSpan
           /\ 10 * Sum(Nums(recent_val)) > 11 * Sum(Nums(earlier_val))

\* detect_training_issues(data): [called, raised, found].  max() over a list
\* holding None, and None < 1.0, raise TypeError; nothing is returned then.
DetectTrainingIssues(records) ==
    LET step_records == SelectSeq(records, LAMBDA r : Get(r, "event") = PyStr("step"))
        recent_steps == LastN(step_records, DetectWindow)
        nan_count == Len(SelectSeq(recent_steps,
                                   LAMBDA r : Truthy(GetOr(r, "nan_inf_detected", PyBool(FALSE)))))
        losses == Recorded(recent_steps, "train_loss")
        grad_norms == Recorded(recent_steps, "grad_norm")
        gpu_usage == [i \in 1..Len(recent_steps) |->
                         GetOr(recent_steps[i], "gpu_mem_allocated", PyInt(0))]
        val_losses == Recorded(step_records, "val_loss")
    IN  IF step_records = <<>>
        THEN [called |-> TRUE, raised |-> "none", found |-> {}]
        ELSE IF \E i \in 1..Len(gpu_usage) : gpu_usage[i] = PyNone
        THEN [called |-> TRUE, raised |-> "TypeError", found |-> {}]
        ELSE [called |-> TRUE, raised |-> "none",
              found |-> (IF nan_count > 0 THEN {"nan_inf"} ELSE {})
                        \cup (IF PlateauDetected(losses) THEN {"plateau"} ELSE {})
                        \cup (IF HighGradient(grad_norms) THEN {"high_gradient"} ELSE {})
                        \cup (IF Max(Nums(gpu_usage)) < 1000 THEN {"low_gpu"} ELSE {})
                        \cup (IF Overfitting(val_losses) THEN {"overfitting"} ELSE {})]

\* The runs the dashboard is shown.  A run is n step records, after a start
\* record when lead is set; loss, val and gpu say what each step record holds:
\*   loss  "flat" (0.995 and 1.005 in turn), "wide" (0.5 to 1.5), "tiny"
\*         (0.001 throughout) or "none" (no train_loss);
\*   val   "rising" (1.0, the last five 1.2), "equal" (1.0) or "none";
\*   gpu   "value" (2.0 GiB), "low" (0.5 GiB), "gaps" (0.5 GiB, null on every
\*         third record, where sampling failed), "null" (no accelerator) or
\*         "absent";
\*   past  "val" when the run began with PastRecords, "none" otherwise.
RunShapes ==
    [loss : {"flat", "wide", "tiny", "none"}, val : {"rising", "equal", "none"},
     gpu : {"value", "low", "gaps", "null", "absent"}, lead : BOOLEAN, past : {"none", "val"}]

StepRecordOf(shape, i, n) ==
    MergeAll(<<
        [event |-> PyStr("step"), global_step |-> PyInt(i), epoch |-> PyInt(0),
         nan_inf_detected |-> PyBool(FALSE)],
        CASE shape.loss = "flat" -> [train_loss |-> PyFloat(IF i % 2 = 1 THEN 995 ELSE 1005)]
          [] shape.loss = "wide" -> [train_loss |-> PyFloat(500 + 50 * ((i - 1) % 21))]
          [] shape.loss = "tiny" -> [train_loss |-> PyFloat(1)]
          [] OTHER -> EmptyDict,
        CASE shape.val = "rising" -> [val_loss |-> PyFloat(IF i > n - 5 THEN 1200 ELSE 1000)]
          [] shape.val = "equal" -> [val_loss |-> PyFloat(1000)]
          [] OTHER -> EmptyDict,
        CASE shape.gpu = "value" -> [gpu_mem_allocated |-> PyFloat(2000)]
          [] shape.gpu = "low" -> [gpu_mem_allocated |-> PyFloat(500)]
          [] shape.gpu = "gaps" ->
                [gpu_mem_allocated |-> IF i % 3 = 0 THEN PyNone ELSE PyFloat(500)]
          [] shape.gpu = "null" -> [gpu_mem_allocated |-> PyNone]
          [] OTHER -> EmptyDict >>)

\* the early part of a long run: eleven step records of a validation phase
\* (val_loss six times 1.0, then five times 1.2), then a full window of step
\* records without val_loss
PastRecords ==
    [i \in 1..(OverfitNeeded + 1 + DetectWindow) |->
        MergeAll(<<
            [event |-> PyStr("step"), global_step |-> PyInt(i), epoch |-> PyInt(0),
             nan_inf_detected |-> PyBool(FALSE), gpu_mem_allocated |-> PyFloat(2000)],
            IF i <= OverfitNeeded + 1
            THEN [val_loss |-> PyFloat(IF i > OverfitNeeded + 1 - OverfitSpan THEN 1200 ELSE 1000)]
            ELSE EmptyDict >>)]

RunData(shape, n) ==
    (IF shape.lead THEN <<[event |-> PyStr("start"), run_name |-> PyStr("run")]>> ELSE <<>>)
    \o (IF shape.past = "val" THEN PastRecords ELSE <<>>)
    \o [i \in 1..n |-> StepRecordOf(shape, i, n)]

\* the dashboard has loaded the records of some run
InitDetect ==
    /\ NewRun(FALSE, FALSE)
    /\ \E shape \in RunShapes, n \in 0..MaxData : data = RunData(shape, n)
    /\ issues = NoIssues
    /\ loaded = NoLoad
    /\ folder = NoFiles
    /\ job = NoJob
    /\ loggers = NoLoggers

\* main(): issues = detect_training_issues(data)
Detect ==
    /\ ~issues.called
    /\ issues' = DetectTrainingIssues(data)
    /\ UNCHANGED <<data, loaded, folderVars, pairVars, fileVars, csvVars, integrationVars, controlVars, observedVars,
                   budget>>

NextDetect == Detect

SpecDetect == InitDetect /\ [][NextDetect]_vars

\* the step records of the loaded run, and the values they carry
StepsLoaded == SelectSeq(data, LAMBDA r : Get(r, "event") = PyStr("step"))

LossesLoaded == Recorded(StepsLoaded, "train_loss")

ValLossesLoaded == Recorded(StepsLoaded, "val_loss")

\* C12: Plateau detection.  When the detector returns, it reports a plateau
\* if the run holds at least 20 train_loss values of which the last 20 have a
\* population standard deviation below 1% of their mean and a mean above
\* 0.001 (a run of exactly 20 step records within +/-0.5% of 1.0 included),
\* and it does not report one when the last 20 losses range from 0.5 to 1.5
\* or have a mean of at most 0.001.
C12_Plateau ==
    (issues.called /\ issues.raised = "none" /\ Len(StepsLoaded) <= DetectWindow) =>
        /\ (Len(LossesLoaded) >= PlateauSpan
            /\ FlatAndAboveFloor(Nums(LastN(LossesLoaded, PlateauSpan))))
              => "plateau" \in issues.found
        /\ (Len(LossesLoaded) >= PlateauSpan
            /\ ~FlatAndAboveFloor(Nums(LastN(LossesLoaded, PlateauSpan))))
              => "plateau" \notin issues.found

\* C13: Overfitting detection.  When the detector returns for a run with at
\* least 10 val_loss values, it flags overfitting if and only if the mean of
\* the last 5 exceeds 1.1 times the mean of the 5 before them; exactly 10
\* values are enough.
C13_Overfitting ==
    (issues.called /\ issues.raised = "none" /\ Len(ValLossesLoaded) >= 2 * OverfitSpan) =>
        ("overfitting" \in issues.found
            <=> 10 * Sum(Nums(LastN(ValLossesLoaded, OverfitSpan)))
                  > 11 * Sum(Nums(BeforeLastN(ValLossesLoaded, OverfitSpan))))

\* C14: the line a log_* call appends to metrics.jsonl holds event, time and
\* timestamp, and its event is the kind of the call that wrote it, whatever
\* keys the mappings passed by the caller contain.
C14_EventKind ==
    (lastCall.op \in LogOps /\ lastCall.errors = 0 /\ JsonlClean) =>
        /\ jsonl # <<>>
        /\ LET r == JsonLoads(jsonl[Len(jsonl)].obj)
           IN  /\ {"event", "time", "timestamp"} \subseteq DOMAIN r
               /\ r["event"] = PyStr(lastCall.op)

\* the row of metrics.csv that projects record rec onto header h
Projection(h, rec) == [i \in 1..Len(h) |-> IF h[i] \in DOMAIN rec THEN CsvCell(rec[h[i]]) ELSE ""]

\* metrics.csv holds one data row per record of metrics.jsonl, in the same order
CsvMirrorsJsonl ==
    /\ Len(csv_disk.rows) = Len(jsonl)
    /\ \A i \in 1..Len(jsonl) :
          csv_disk.rows[i] = Projection(csv_disk.header, JsonLoads(jsonl[i].obj))

\* C15: after every log_* call, in a run in which no write has failed,
\* metrics.csv holds exactly one data row per record of the run's
\* metrics.jsonl, in the same order, also when the logger was constructed on
\* a run directory that already held records.
C15_CsvProjection ==
    (lastCall.op \in LogOps /\ lastCall.errors = 0 /\ budget.failures = 0 /\ JsonlClean)
        => CsvMirrorsJsonl

\* C16: every log_* call leaves the header of metrics.csv equal to the sorted
\* union of the header before the call and the keys of the call's record; the
\* first call of a logger leaves the sorted keys of its record.  The header is
\* therefore the sorted union of the keys of all records the logger has logged.
C16_Step ==
    budget'.calls = budget.calls + 1 =>
        /\ Range(csv_disk'.header) = Range(csv_disk.header) \cup DOMAIN lastCall'.record
        /\ csv_disk'.header = Sorted(Range(csv_disk'.header))
        /\ Range(csv_disk'.header) = csv_fieldnames'
        /\ budget.calls = 0 => csv_disk'.header = Sorted(DOMAIN lastCall'.record)

EnabledIntegrations ==
    (IF enable_tensorboard /\ tb_writer # "None" THEN {"tensorboard"} ELSE {})
    \cup (IF enable_wandb /\ wandb_run # "None" THEN {"wandb"} ELSE {})

\* the integrations the last call invoked
Invoked == Range(lastCall.trace) \cap {"tensorboard", "wandb"}

\* C17: with an integration enabled, every log_* call (start, step, epoch,
\* checkpoint, eval, control_change) forwards its record to that integration.
C17_AllForward ==
    lastCall.op \in LogOps => EnabledIntegrations \subseteq Invoked

\* C18: Integration isolation.  When the TensorBoard write or the W&B write
\* raises during a log_* call, the call raises nothing, metrics.jsonl and
\* metrics.csv are written as they are in a call without that failure (with
\* the same failures of the sink, if any), and the other integration, if
\* enabled, is still invoked for the record.
C18_Step ==
    (budget'.calls = budget.calls + 1
     /\ lastCall'.faults \cap {"tb_write", "wandb_write"} # {}) =>
        /\ lastCall'.raised = "none"
        /\ lastCall'.int_errors >= 1
        /\ jsonl' = WriteJsonl([lines |-> jsonl, tail |-> jsonl_tail], lastCall'.record,
                               lastCall'.faults \cap SinkFaultKinds).file.lines
        /\ csv_disk' = WriteCsv(CsvState, lastCall'.record,
                                lastCall'.faults \cap SinkFaultKinds).cs.disk
        /\ EnabledIntegrations \subseteq Range(lastCall'.trace)

C18_Isolation == [][C18_Step]_vars

\* the TensorBoard write of a step record failed with both integrations
\* enabled: the record is in both files and was passed to W&B
C18_Witness ==
    /\ lastCall.op = "step"
    /\ "tb_write" \in lastCall.faults
    /\ lastCall.int_errors = 1
    /\ lastCall.trace = <<"jsonl", "csv", "tensorboard", "wandb">>
    /\ lastCall.wandb_sent # {}
    /\ jsonl # <<>>
    /\ csv_disk.rows # <<>>

\* C19: an integration is invoked for a record only after the record's write
\* to the sink has succeeded; when the write to metrics.jsonl or metrics.csv
\* fails, no integration is invoked for that record.
C19_AfterLocalWrite ==
    (lastCall.op \in LogOps /\ lastCall.errors >= 1) => Invoked = {}

\* the record holds, for every key of the mappings passed to log_start, the
\* value of the latest mapping (config, lora_config, model_info,
\* training_info, in this order) that has the key
LatestWins(r, passed) ==
    \A p \in passed :
        (\A q \in passed : q.k = p.k => q.pos <= p.pos) => (p.k \in DOMAIN r /\ r[p.k] = p.v)

\* C20: the line log_start appends to metrics.jsonl is a record with event
\* "start" in which the four mappings are merged flat in the order config,
\* lora_config, model_info, training_info: for a key present in several of
\* them the value of the latest one is stored.
C20_StartMerge ==
    (lastCall.op = "start" /\ lastCall.errors = 0 /\ JsonlClean) =>
        /\ jsonl # <<>>
        /\ LET r == JsonLoads(jsonl[Len(jsonl)].obj)
           IN  /\ LatestWins(r, lastCall.passed)
               /\ DOMAIN r = {"event", "time", "timestamp", "run_name"}
                                \cup {p.k : p \in lastCall.passed}
               /\ r["event"] = PyStr("start")

(***************************************************************************)
(* Claims about the eval records, the reader and the durability of a line. *)
(***************************************************************************)
\* the record log_eval writes holds the logger's four fields and the metrics
\* m, each under its key with "eval/" before it
EvalRecordOf(r, m) ==
    /\ DOMAIN r = {"event", "time", "timestamp", "global_step"}
                     \cup {"eval/" \o k : k \in DOMAIN m}
    /\ \A k \in DOMAIN m : r["eval/" \o k] = m[k]

\* C21: log_eval stores every metric key k as "eval/k": whatever keys the
\* metrics have, the eval record holds the call's own event, time, timestamp
\* and global_step, and each metric under its prefixed key with its value;
\* the line appended to metrics.jsonl reads back as this record.
C21_EvalNamespace ==
    lastCall.op = "eval" =>
        /\ lastCall.record["event"] = PyStr("eval")
        /\ lastCall.record["time"] = PyFloat(now * 1000)
        /\ lastCall.record["timestamp"] = PyStr(IsoFormat(now))
        /\ lastCall.record["global_step"] = PyInt(1)
        /\ \E m \in EvalMetrics : EvalRecordOf(lastCall.record, m)
        /\ jsonl # <<>>
        /\ jsonl[Len(jsonl)].prefix = 0 => JsonLoads(jsonl[Len(jsonl)].obj) = lastCall.record

\* an eval call was passed metrics named event, time, timestamp and global_step
C21_Witness ==
    /\ lastCall.op = "eval"
    /\ {"eval/event", "eval/time", "eval/timestamp", "eval/global_step"}
          \subseteq DOMAIN lastCall.record
    /\ lastCall.record["eval/event"] = PyStr("boot")
    /\ lastCall.record["event"] = PyStr("eval")
    /\ jsonl # <<>>
    /\ jsonl[Len(jsonl)].prefix = 0

(***************************************************************************)
(* The dashboard beside a run that is being logged: main() reads           *)
(* metrics.jsonl and runs the detector on what it read.                    *)
(***************************************************************************)
\* main(), from "data = load_jsonl_data(selected_run["path"])" to
\* "issues = detect_training_issues(data)": an exception ends the script run
Refresh ==
    /\ \E l \in {LoadJsonlData(jsonl_exists, jsonl, jsonl_tail)} :
          /\ loaded' = [called |-> TRUE, raised |-> l.raised]
          /\ data' = l.data
          /\ issues' = IF l.raised = "none" THEN DetectTrainingIssues(l.data) ELSE NoIssues
    /\ UNCHANGED <<fileVars, csvVars, integrationVars, controlVars, observedVars, folderVars, pairVars,
                   budget>>

\* the metrics the training loop passes to log_step while the dashboard looks on
ViewMetrics ==
    { EmptyDict, [train_loss |-> PyFloat(500)], [train_loss |-> PyObject],
      [cpu_mem_rss_mb |-> PyFloat(1000), gpu_mem_allocated |-> PyFloat(9000),
       gpu_mem_reserved |-> PyFloat(9500), nan_inf_detected |-> PyBool(TRUE)] }

NextView ==
    \/ budget.calls < MaxRecords
          /\ LogStart(<<[name |-> PyStr("run")], EmptyDict, EmptyDict, EmptyDict>>, {})
    \/ \E g \in NextSteps, m \in ViewMetrics, env \in SampleEnvs :
          budget.calls < MaxRecords /\ LogStep(g, 0, m, env, {})
    \/ budget.calls < MaxRecords /\ LogEpoch(0, EmptyDict, {})
    \/ Refresh

SpecView == Init /\ [][NextView]_vars

\* C22: load_jsonl_data returns, in file order, exactly the records of the
\* lines of metrics.jsonl that parse as JSON: a line that does not parse, in
\* the middle of the file or partially written at its end, is skipped, no
\* line that parses is dropped, nothing is raised, and a file that does not
\* exist gives the empty list.
C22_Step ==
    (loaded' # loaded \/ data' # data) =>
        /\ loaded'.called
        /\ loaded'.raised = "none"
        /\ data' = LoadJsonl(jsonl)
        /\ Len(data') = Cardinality({i \in 1..Len(jsonl) : jsonl[i].prefix = 0})
        /\ ~jsonl_exists => data' = <<>>

C22_TolerantRead == [][C22_Step]_vars

\* the file read held a line that does not parse and a record behind it; the
\* record behind the bad line was returned
C22_Witness ==
    /\ loaded.called
    /\ Len(jsonl) = 2
    /\ jsonl[1].prefix > 0
    /\ jsonl[2].prefix = 0
    /\ data = <<JsonLoads(jsonl[2].obj)>>

\* C23: when a log_* call returns without a failure, the record's complete
\* line, ended by its newline, is the last line of metrics.jsonl at the
\* moment the call returns: nothing of it is held back for a later flush.
C23_LineDurable ==
    (lastCall.op \in LogOps /\ lastCall.errors = 0 /\ lastCall.faults = {}) =>
        /\ jsonl # <<>>
        /\ jsonl[Len(jsonl)] = [prefix |-> 0, obj |-> JsonDumps(lastCall.record)]
        /\ jsonl_tail = 0

(***************************************************************************)
(* Claims about rapid edits of the control file.                           *)
(***************************************************************************)
\* C24: a request written by write_control_file that is replaced less than
\* 30 s after it was written (after the time it carries as its timestamp) is
\* returned by no check_control_file call, before or after it is replaced:
\* of requests written in quick succession only the last can be returned.
C24_RapidEdits ==
    \A th \in Threads :
        result[th].ret = "data" =>
            /\ result[th].data \notin superseded
            /\ WellFormed(result[th].data) =>
                  current_time[th] - result[th].data.ts >= ControlDebounce

\* a request was replaced inside its window, and a call made after that
\* window had passed read its successor and returned nothing
C24_Witness ==
    \E d \in superseded, th \in Threads :
        /\ result[th].stage = "read"
        /\ current_time[th] >= d.ts + ControlDebounce
        /\ WellFormed(result[th].seen)
        /\ result[th].seen # d
        /\ result[th].ret = "None"

(***************************************************************************)
(* Claims about failed writes and the order of the writes.                 *)
(***************************************************************************)
\* the append of the record to metrics.jsonl fails: the file cannot be
\* opened, or json cannot encode a value
JsonlWriteFails(record, faults) ==
    "jsonl_open" \in faults \/ \E k \in DOMAIN record : ~Serializable(record[k])

C25_Step ==
    budget'.calls = budget.calls + 1 =>
        IF JsonlWriteFails(lastCall'.record, lastCall'.faults)
        THEN /\ jsonl' = jsonl
             /\ jsonl_tail' = jsonl_tail
        ELSE /\ jsonl' = Append(jsonl, [prefix |-> 0, obj |-> JsonDumps(lastCall'.record)])
             /\ jsonl_tail' = 0

\* C25: a log_* call whose record cannot be appended to metrics.jsonl
\* (json cannot encode it, or the file cannot be opened) leaves the content
\* of the file as it was, and every other call appends the parsable line of
\* its record: the records of successful calls keep a line of their own.
C25_FailedWriteNoOp == [][C25_Step]_vars

\* C26: in every log_* call metrics.jsonl is written first and metrics.csv
\* after it, and an integration whose flag is disabled is not invoked and is
\* sent nothing.
C26_WriteOrder ==
    lastCall.op \in LogOps =>
        /\ lastCall.trace[1] = "jsonl"
        /\ Len(lastCall.trace) >= 2
        /\ lastCall.trace[2] = "csv"
        /\ \A i \in 3..Len(lastCall.trace) : lastCall.trace[i] \notin {"jsonl", "csv"}
        /\ ~enable_tensorboard =>
              ("tensorboard" \notin Range(lastCall.trace) /\ lastCall.tb_sent = {})
        /\ ~enable_wandb =>
              ("wandb" \notin Range(lastCall.trace) /\ lastCall.wandb_sent = {})

\* a step record went to both files, then to TensorBoard, which is enabled,
\* and not to W&B, which is not
C26_Witness ==
    /\ lastCall.op = "step"
    /\ enable_tensorboard
    /\ ~enable_wandb
    /\ lastCall.trace = <<"jsonl", "csv", "tensorboard">>
    /\ lastCall.tb_sent # {}
    /\ lastCall.wandb_sent = {}

(***************************************************************************)
(* Claims about the window and the heuristics of the detector.             *)
(***************************************************************************)
\* C27: the detector's answer depends on the most recent 50 step records
\* only: it is the answer the detector gives for those records alone.
C27_WindowOnly ==
    issues.called => issues = DetectTrainingIssues(LastN(StepsLoaded, DetectWindow))

\* the gpu_mem_allocated values recorded in the step records of the window
GpuRecorded == Recorded(LastN(StepsLoaded, DetectWindow), "gpu_mem_allocated")

\* C28: Low-utilization heuristic.  When the window holds recorded
\* gpu_mem_allocated values, the detector returns and reports low GPU
\* utilization if and only if all of them are below 1.0 GiB; step records
\* whose value is null or absent do not count.
C28_LowGpu ==
    (issues.called /\ GpuRecorded # <<>>) =>
        /\ issues.raised = "none"
        /\ "low_gpu" \in issues.found
              <=> \A i \in 1..Len(GpuRecorded) : Num(GpuRecorded[i]) < 1000

\* C29: whatever records the logger has written to metrics.jsonl, step
\* records with a null gpu_mem_allocated and without train_loss, grad_norm or
\* val_loss among them, the detector run on the records read from the file
\* returns its list of issues and raises nothing.
C29_DetectorReturns ==
    loaded.called => (issues.called /\ issues.raised = "none")

(***************************************************************************)
(* Claims about the System Sampler.                                        *)
(***************************************************************************)
\* C30: every step record holds cpu_mem_rss_mb, gpu_mem_allocated,
\* gpu_mem_reserved and nan_inf_detected; a metric is null exactly when its
\* own query failed or, for the two accelerator metrics, no accelerator is
\* present; and log_step raises nothing whatever the queries do.
C30_SamplerNulls ==
    lastCall.op = "step" =>
        /\ {"cpu_mem_rss_mb", "gpu_mem_allocated", "gpu_mem_reserved", "nan_inf_detected"}
              \subseteq DOMAIN lastCall.record
        /\ lastCall.raised = "none"
        /\ lastCall.record["cpu_mem_rss_mb"] = PyNone <=> sampling.cpu = "raises"
        /\ lastCall.record["gpu_mem_allocated"] = PyNone
              <=> (~sampling.cuda \/ sampling.allocated = "raises")
        /\ lastCall.record["gpu_mem_reserved"] = PyNone
              <=> (~sampling.cuda \/ sampling.reserved = "raises")

(***************************************************************************)
(* Claims about the effects of write_control_file.                         *)
(***************************************************************************)
C31_Step ==
    /\ (writer.pc = "idle" /\ writer'.pc = "writing") =>
          /\ fileVars' = fileVars
          /\ control'.kind = "partial"
          /\ writer'.data.kind = "object"
          /\ writer'.data.value \in Settings
          /\ writer'.data.ts_kind = "number"
          /\ writer'.data.ts = now
    /\ (writer.pc = "writing" /\ writer'.pc = "idle") =>
          /\ fileVars' = fileVars
          /\ control' = writer.data

\* C31: write_control_file changes control.json of the selected run and no
\* other file: it truncates the file and leaves in it one object that holds
\* the setting and, as timestamp, the time of the call, whatever the file
\* held before; metrics.jsonl and metrics.csv stay as they are.
C31_WritesControlOnly == [][C31_Step]_vars

\* a second request has replaced the first, written at an earlier time, and
\* the run's records are still in both files
C31_Witness ==
    /\ writer.pc = "idle"
    /\ budget.writes = 2
    /\ WellFormed(control)
    /\ control.ts > Epoch0
    /\ superseded # {}
    /\ jsonl # <<>>
    /\ csv_disk.rows # <<>>

(***************************************************************************)
(* Claims about a poll that meets a write of control.json.                 *)
(***************************************************************************)
C33_Step ==
    \A th \in Threads :
        (pc[th] = "read" /\ pc'[th] = "idle") =>
            IF writer.pc = "writing"
            THEN /\ result'[th].ret = "None"
                 /\ result'[th].seen.kind = "partial"
            ELSE result'[th].ret = "data" =>
                    /\ result'[th].data = control
                    /\ control.kind = "object"

\* C33: a check_control_file call that reads control.json between the
\* truncation and the dump of a write_control_file call returns None, and a
\* call that reads it at any other time returns None or the whole content a
\* finished write left in the file: no call returns partly written or mixed
\* content.
C33_NoTornRead == [][C33_Step]_vars

\* a call that found the file present before the dashboard truncated it, read
\* it while it was being written, and returned None
C33_Witness ==
    \E th \in Threads :
        /\ result[th].stage = "read"
        /\ result[th].seen.kind = "partial"
        /\ result[th].ret = "None"
        /\ writer.pc = "writing"
        /\ writer.data.ts > current_time[th]

(***************************************************************************)
(* The control channel over time: the training loop polls for ever, the    *)
(* clock runs to the horizon of the model, and the dashboard writes its    *)
(* requests early enough for their window to end before the horizon.       *)
(***************************************************************************)
\* the last second of the model's clock
Horizon == Epoch0 + MaxTime

\* a request written later than this cannot be served before the horizon
LastWriteTime == Horizon - ControlDebounce - PollFloor + 1

\* a limiter that restarts its interval at every call, the refused ones too
LastCheckAfter_EveryCall(t, last) == t

\* self.last_control_check after the poll floor test of a call made at t:
\* "if current_time - self.last_control_check < 2: return None" comes
\* before "self.last_control_check = current_time"
LastCheckAfter(t, last) == IF RateLimited(t, last) THEN last ELSE t

\* check_control_file, the whole call as the polling thread makes it: the time
\* is sampled, and under the lock come the poll floor test, the test for the
\* file and the try block
Poll(th) ==
    /\ pc[th] = "idle"
    /\ control_lock = "free"
    /\ current_time' = [current_time EXCEPT ![th] = now]
    /\ last_control_check' = LastCheckAfter(now, last_control_check)
    /\ \E ret \in {IF RateLimited(now, last_control_check) \/ control.kind = "absent"
                   THEN "None" ELSE ReadControl(control, now)} :
          /\ result' = [result EXCEPT ![th] =
                           [ret |-> ret,
                            data |-> IF ret = "data" THEN control ELSE AbsentControl,
                            stage |-> IF RateLimited(now, last_control_check)
                                      THEN "floor"
                                      ELSE IF control.kind = "absent" THEN "missing" ELSE "read",
                            seen |-> IF RateLimited(now, last_control_check)
                                     THEN AbsentControl ELSE control]]
          /\ control' = ControlAfterRead(control, ret = "data")
    /\ UNCHANGED <<dashboardVars, folderVars, pairVars, fileVars, csvVars, integrationVars, observedVars, control_lock,
                   now, pc, fsReads, served, superseded, writer, budget>>

\* the clock advances by d seconds, up to the horizon
Elapse(d) ==
    /\ now + d <= Horizon
    /\ now' = now + d
    /\ UNCHANGED <<dashboardVars, folderVars, pairVars, fileVars, csvVars, integrationVars, observedVars, control,
                   last_control_check, control_lock, pc, current_time, result, fsReads,
                   served, superseded, writer, budget>>

\* the thread of the training loop that polls
Poller == "t1"

NextPoll ==
    \/ Poll(Poller)
    \/ \E v \in Settings : now <= LastWriteTime /\ WriteControlOpen(v)
    \/ WriteControlDump
    \/ \E d \in TickSteps : Elapse(d)

\* the host keeps calling, every call returns, and time advances
PollFairness ==
    /\ WF_vars(Poll(Poller))
    /\ WF_vars(\E d \in TickSteps : Elapse(d))

SpecPoll == InitControl /\ [][NextPoll]_vars /\ PollFairness

\* control.json holds a request that will not be changed again, and the
\* clock has the poll floor left to run after the request's window
Settled ==
    /\ WellFormed(control)
    /\ writer.pc = "idle"
    /\ budget.writes = MaxWrites \/ now > LastWriteTime
    /\ now + PollFloor <= Horizon

\* C34: once control.json holds a well-formed request that is not changed
\* again, some check_control_file call of the polling loop returns that
\* request: the poll floor delays calls but cannot hold every call back.
C34_Served ==
    Settled ~> (result[Poller].ret = "data" /\ result[Poller].data = control)

\* the request was returned by a call made after calls that the poll floor
\* and the debounce window had refused
C34_Witness ==
    /\ result[Poller].ret = "data"
    /\ result[Poller].data = control
    /\ current_time[Poller] > control.ts + ControlDebounce
    /\ budget.writes = MaxWrites
    /\ now = Horizon

(***************************************************************************)
(* Claims about logging after close().                                     *)
(***************************************************************************)
C35_Step ==
    (budget'.calls = budget.calls + 1 /\ budget.closes >= 1) =>
        /\ lastCall'.raised = "none"
        /\ ~JsonlWriteFails(lastCall'.record, lastCall'.faults) =>
              /\ jsonl' = Append(jsonl, [prefix |-> jsonl_tail,
                                         obj |-> JsonDumps(lastCall'.record)])
              /\ jsonl_tail' = 0

\* C35: a log_* call made after close() raises nothing, and when the write to
\* metrics.jsonl does not fail for a reason of its own (the file cannot be
\* opened, json cannot encode the record) the text of the record and its
\* newline are appended to the file, as they are before close().
C35_LogAfterClose == [][C35_Step]_vars

\* a call on a closed logger: the row could not be written to the closed
\* metrics.csv, which was reported, and the record's line is the last of
\* metrics.jsonl
C35_Witness ==
    /\ lastCall.op \in LogOps
    /\ csv_file = "closed"
    /\ finalized.csv >= 1
    /\ lastCall.errors >= 1
    /\ lastCall.faults = {}
    /\ lastCall.raised = "none"
    /\ Len(jsonl) = 2
    /\ jsonl[2] = [prefix |-> 0, obj |-> JsonDumps(lastCall.record)]
    /\ Len(csv_disk.rows) = 1

(***************************************************************************)
(* Claims about the fields of a step record that the logger computes.      *)
(***************************************************************************)
\* the keys of a step record whose values log_step computes itself
ComputedKeys == {"cpu_mem_rss_mb", "gpu_mem_allocated", "gpu_mem_reserved", "nan_inf_detected"}

\* the entries of the metrics mapping passed to the last log_step call
MetricsPassed == {p \in lastCall.passed : p.k \notin {"global_step", "epoch"}}

\* C36: in every step record the values of cpu_mem_rss_mb, gpu_mem_allocated,
\* gpu_mem_reserved and nan_inf_detected are the ones log_step computed in
\* that call from its sampler and from the train_loss passed; an entry the
\* caller passed under one of these keys is in neither the record nor the
\* line written for it.
C36_ComputedFields ==
    lastCall.op = "step" =>
        /\ \A k \in {"cpu_mem_rss_mb", "gpu_mem_allocated", "gpu_mem_reserved"} :
              lastCall.record[k] = GetSystemMetrics(sampling)[k]
        /\ \E m \in ViewMetrics :
              /\ Items(m) = MetricsPassed
              /\ lastCall.record["nan_inf_detected"] = DetectAnomalies(m)["nan_inf_detected"]
        /\ (lastCall.errors = 0 /\ jsonl[Len(jsonl)].prefix = 0) =>
              \A k \in ComputedKeys :
                  JsonLoads(jsonl[Len(jsonl)].obj)[k] = lastCall.record[k]

\* the caller passed all four keys with values of its own, on a machine
\* without an accelerator: the record holds the sampler's memory figure, null
\* for both accelerator metrics and false for the flag
C36_Witness ==
    /\ lastCall.op = "step"
    /\ ComputedKeys \subseteq {p.k : p \in MetricsPassed}
    /\ ~sampling.cuda
    /\ lastCall.record["cpu_mem_rss_mb"] = PyFloat(512000)
    /\ lastCall.record["gpu_mem_allocated"] = PyNone
    /\ lastCall.record["gpu_mem_reserved"] = PyNone
    /\ lastCall.record["nan_inf_detected"] = PyBool(FALSE)
    /\ jsonl[Len(jsonl)] = [prefix |-> 0, obj |-> JsonDumps(lastCall.record)]

(***************************************************************************)
(* The dataset creator (src/datasetcreator/core/processor.py): one call of *)
(* process_folder on a folder of images.  A file is its name, split into   *)
(* stem and suffix, and its content; the content of an image says which    *)
(* image it is.                                                            *)
(***************************************************************************)
\* images in the folder when process_folder is called, at most
MaxImages == 3
\* os.rename or open() calls that fail in one run, at most
MaxFolderFaults == 1

\* SUPPORTED_EXTS, as far as the folders of the model use it
SupportedExts == {".jpg", ".png"}

\* str.lower() on the suffixes of the model
Lower(suffix) == IF suffix = ".PNG" THEN ".png" ELSE suffix

\* options.rename_prefix and options.base_prompt
RenamePrefix == "img"

BasePrompt == "photo"

\* the image files a folder may hold when the run starts, in the order of
\* their lower-cased names (sort(key=lambda p: p.name.lower()))
NameOrder ==
    << Name("a", ".jpg"), Name("B", ".PNG"), Name("img1", ".jpg"), Name("img1", ".png"),
       Name("img1_2", ".jpg"), Name("img2", ".png") >>

\* the caption files a folder may hold when the run starts
OldCaptions == {Name("img1", ".txt"), Name("img2", ".txt"), Name("img1_2", ".txt")}

\* the content of the image first found under name n, and of a caption file
\* written before the run
ImageOf(n) == "image " \o n.stem \o n.suffix

OldCaption == "old caption"

\* the caption a provider returns for an image
CaptionOf(content) == "caption of " \o content

\* "p.suffix.lower() in SUPPORTED_EXTS"
IsImage(n) == Lower(n.suffix) \in SupportedExts

RECURSIVE ListUpTo(_, _)
ListUpTo(files, i) ==
    IF i = 0 THEN <<>>
    ELSE IF NameOrder[i] \in files /\ IsImage(NameOrder[i])
         THEN Append(ListUpTo(files, i - 1), NameOrder[i])
         ELSE ListUpTo(files, i - 1)

\* list_images(folder): the images among the files, sorted by lower-cased name
ListImages(files) == ListUpTo(files, Len(NameOrder))

\* the loop of ensure_unique_name: f"{stem}_{i}{suffix}" for i = 2, 3, ...
RECURSIVE UniqueFrom(_, _, _)
UniqueFrom(files, target_path, i) ==
    LET candidate == Name(target_path.stem \o "_" \o ToString(i), target_path.suffix)
    IN  IF candidate \notin files THEN candidate ELSE UniqueFrom(files, target_path, i + 1)

\* a renamer that takes the name it wants, free or not
EnsureUniqueName_AsIs(files, target_path) == target_path

\* ensure_unique_name(target_path), in a folder that holds files
EnsureUniqueName(files, target_path) ==
    IF target_path \notin files THEN target_path ELSE UniqueFrom(files, target_path, 2)

\* os.rename(src, dst): a file at dst is replaced without notice
Rename(f, src, dst) ==
    [n \in ((DOMAIN f) \ {src}) \cup {dst} |-> IF n = dst THEN f[src] ELSE f[n]]

\* open(txt_path, "w") and f.write(caption)
WriteText(f, txt_path, caption) ==
    [n \in (DOMAIN f) \cup {txt_path} |-> IF n = txt_path THEN caption ELSE f[n]]

\* a processor that lets the provider's exception through
CaptionFor_NoCatch(outcome, content) ==
    IF outcome = "raises" THEN [caption |-> "", exc |-> "Exception"]
    ELSE [caption |-> CaptionOf(content), exc |-> "none"]

\* lines 81-87: the provider's caption, or on any Exception the base prompt
CaptionFor(outcome, content) ==
    IF outcome = "raises" THEN [caption |-> BasePrompt, exc |-> "none"]
    ELSE [caption |-> CaptionOf(content), exc |-> "none"]

\* process_folder, up to the loop: the images are listed once
StartFolder(options) ==
    /\ job.status = "idle"
    /\ job' = [NoJob EXCEPT !.status = "running", !.options = options,
                            !.images = ListImages(DOMAIN folder)]
    /\ UNCHANGED <<folder, fileVars, csvVars, integrationVars, controlVars, observedVars,
                   dashboardVars, pairVars, budget>>

\* what one iteration can meet: the provider answers or raises, os.rename
\* and the write of the caption succeed or fail
Outcomes == [provider : {"ok", "raises"}, rename : {"ok", "fails"}, write : {"ok", "fails"}]

\* one iteration of the loop of process_folder, for image number job.idx + 1
ProcessImage(out) ==
    /\ job.status = "running"
    /\ job.idx < Len(job.images)
    /\ budget.failures + (IF out.rename = "fails" THEN 1 ELSE 0)
                       + (IF out.write = "fails" THEN 1 ELSE 0) <= MaxFolderFaults
    /\ LET idx == job.idx + 1
           img_path == job.images[idx]
           ext == Lower(img_path.suffix)
           want == Name(RenamePrefix \o ToString(idx), ext)
           new_img_path == EnsureUniqueName(DOMAIN folder, want)
           txt_path == Name(new_img_path.stem, ".txt")
           it == [NoIteration EXCEPT !.src = img_path, !.want = want]
       IN  IF job.options.skip_if_txt_exists /\ Name(want.stem, ".txt") \in DOMAIN folder
           THEN /\ out = [provider |-> "ok", rename |-> "ok", write |-> "ok"]
                /\ job' = [job EXCEPT !.idx = idx, !.skipped = @ + 1,
                                      !.last = [it EXCEPT !.stage = "skipped_for_caption"]]
                /\ UNCHANGED <<folder, budget>>
           ELSE IF out.rename = "fails" \/ img_path \notin DOMAIN folder
           THEN /\ out.provider = "ok" /\ out.write = "ok"
                /\ job' = [job EXCEPT !.idx = idx,
                                      !.last = [it EXCEPT !.dst = new_img_path,
                                                          !.stage = "rename_failed"]]
                /\ budget' = [budget EXCEPT !.failures = @ + 1]
                /\ UNCHANGED folder
           ELSE IF txt_path \in DOMAIN folder /\ ~job.options.overwrite_txt
           THEN /\ out.provider = "ok" /\ out.write = "ok"
                /\ folder' = Rename(folder, img_path, new_img_path)
                /\ job' = [job EXCEPT !.idx = idx, !.renamed = @ + 1, !.skipped = @ + 1,
                                      !.last = [it EXCEPT !.dst = new_img_path,
                                                          !.stage = "not_overwriting"]]
                /\ UNCHANGED budget
           ELSE \E c \in {CaptionFor(out.provider, folder[img_path])} :
                   IF c.exc # "none"
                   THEN /\ out.write = "ok"
                        /\ folder' = Rename(folder, img_path, new_img_path)
                        /\ job' = [job EXCEPT !.status = "raised", !.idx = idx, !.renamed = @ + 1,
                                              !.last = [it EXCEPT !.dst = new_img_path,
                                                                  !.stage = "raised",
                                                                  !.provider = "raised"]]
                        /\ UNCHANGED budget
                   ELSE /\ folder' = IF out.write = "ok"
                                     THEN WriteText(Rename(folder, img_path, new_img_path),
                                                    txt_path, c.caption)
                                     ELSE Rename(folder, img_path, new_img_path)
                        /\ job' = [job EXCEPT
                                      !.idx = idx, !.renamed = @ + 1,
                                      !.created_txt = IF out.write = "ok" THEN @ + 1 ELSE @,
                                      !.last = [it EXCEPT
                                                  !.dst = new_img_path,
                                                  !.stage = IF out.write = "ok" THEN "written"
                                                            ELSE "write_failed",
                                                  !.provider = IF out.provider = "raises"
                                                               THEN "raised" ELSE "ok"]]
                        /\ budget' = [budget EXCEPT
                                         !.failures = IF out.write = "ok" THEN @ ELSE @ + 1]
    /\ UNCHANGED <<fileVars, csvVars, integrationVars, controlVars, observedVars, dashboardVars,
                   pairVars>>

\* "return renamed, created_txt, skipped", after the last image
ReturnFolder ==
    /\ job.status = "running"
    /\ job.idx = Len(job.images)
    /\ job' = [job EXCEPT !.status = "returned"]
    /\ UNCHANGED <<folder, fileVars, csvVars, integrationVars, controlVars, observedVars,
                   dashboardVars, pairVars, budget>>

\* the folders the user may choose: up to MaxImages images, and caption
\* files from an earlier run
Folders ==
    {[n \in images \cup captions |-> IF n \in captions THEN OldCaption ELSE ImageOf(n)] :
        images \in {S \in SUBSET Range(NameOrder) : Cardinality(S) \in 1..MaxImages},
        captions \in SUBSET OldCaptions}

InitFolder ==
    /\ NewRun(FALSE, FALSE)
    /\ data = <<>>
    /\ issues = NoIssues
    /\ loaded = NoLoad
    /\ folder \in Folders
    /\ job = NoJob
    /\ loggers = NoLoggers

NextFolder ==
    \/ \E options \in [skip_if_txt_exists : BOOLEAN, overwrite_txt : BOOLEAN] :
          StartFolder(options)
    \/ \E out \in Outcomes : ProcessImage(out)
    \/ ReturnFolder

SpecFolder == InitFolder /\ [][NextFolder]_vars

\* the images of a folder, each counted once
ImagesIn(f) == {n \in DOMAIN f : IsImage(n)}

(***************************************************************************)
(* Claims about the dataset creator.                                       *)
(***************************************************************************)
C37_Step ==
    /\ job'.idx = job.idx + 1 /\ job'.last.stage \notin {"skipped_for_caption", "rename_failed"}
          => /\ job'.last.dst \notin DOMAIN folder
             /\ job'.last.dst \in DOMAIN folder'
             /\ folder'[job'.last.dst] = folder[job'.last.src]
             /\ job'.last.src \notin DOMAIN folder'
    /\ {folder'[n] : n \in ImagesIn(folder')} = {folder[n] : n \in ImagesIn(folder)}
    /\ Cardinality(ImagesIn(folder')) = Cardinality(ImagesIn(folder))
    /\ \A n \in ImagesIn(folder) \cap ImagesIn(folder') : folder'[n] = folder[n]

\* C37: every name process_folder renames an image to is a name no file of
\* the folder had when the rename was made, the image is under that name
\* afterwards, and every step of a run leaves the folder with the images it
\* held before, each once and each image that kept its name unchanged.
C37_NoClobber == [][C37_Step]_vars

\* the name wanted for the first image and the next name tried were taken:
\* the image went to the third, and all three images are in the folder
C37_Witness ==
    /\ job.status = "returned"
    /\ job.renamed = 3
    /\ \E n \in DOMAIN folder : n.stem = "img1_3" /\ folder[n] = ImageOf(Name("a", ".jpg"))
    /\ {folder[n] : n \in ImagesIn(folder)}
          = {ImageOf(Name("a", ".jpg")), ImageOf(Name("img1", ".jpg")),
             ImageOf(Name("img1_2", ".jpg"))}

C38_Step ==
    /\ job'.status # "raised"
    /\ (job'.idx = job.idx + 1 /\ job'.last.provider = "raised"
        /\ job'.last.stage # "write_failed") =>
          /\ job'.last.stage = "written"
          /\ Name(job'.last.dst.stem, ".txt") \in DOMAIN folder'
          /\ folder'[Name(job'.last.dst.stem, ".txt")] = BasePrompt
          /\ job'.created_txt = job.created_txt + 1
          /\ job'.status = "running"
    /\ (job.status = "running" /\ job'.status = "returned") =>
          job.idx = Len(job.images)

\* C38: when generate_caption raises for an image, process_folder raises
\* nothing, writes the base prompt to the image's .txt file (unless the write
\* itself fails), counts the file in created_txt and goes on: it returns
\* only after the last image of its list.
C38_Fallback == [][C38_Step]_vars

\* the provider failed for the first of three images and answered for the
\* others: the run returned with three caption files, the first one holding
\* the base prompt
C38_Witness ==
    /\ job.status = "returned"
    /\ job.created_txt = 3
    /\ job.idx = 3
    /\ Name("img1", ".txt") \in DOMAIN folder
    /\ folder[Name("img1", ".txt")] = BasePrompt
    /\ \E n \in DOMAIN folder : n.suffix = ".txt" /\ folder[n] # BasePrompt /\ folder[n] # OldCaption

(***************************************************************************)
(* Two training processes on one run.  Each has constructed its own        *)
(* TelemetryLogger for the same run name; metrics.jsonl and metrics.csv    *)
(* are shared.  _write_csv is followed through its system calls: an        *)
(* append through the open handle, or close, read, open(..., 'w') and      *)
(* the writes after it.  A handle opened with 'w' keeps its own position:  *)
(* it is at the end of the file as long as no other open has replaced the  *)
(* file.  Where a write through a replaced handle lands depends on the     *)
(* byte lengths of the rows, which the model does not carry: a process is  *)
(* followed up to such a write, not through it.                            *)
(***************************************************************************)
\* log_* calls of each process
MaxPairCalls == 2

Other(l) == CHOOSE o \in Procs : o # l

\* the CSV attributes of process l's logger, with the file as it is on disk
PairCsvState(l) ==
    [file |-> loggers[l].file, writer |-> loggers[l].writer,
     fieldnames |-> loggers[l].fieldnames, disk |-> csv_disk]

\* what each process passes: its own name, its own loss
PairConfig(l) == [name |-> PyStr(l)]

PairMetrics(l) == [train_loss |-> PyFloat(IF l = "p1" THEN 500 ELSE 600)]

\* the record of process l's log_start call
PairStartRecord(l) ==
    MergeAll(<<LoggerFields("start"), [run_name |-> PyStr(RunName)], PairConfig(l)>>)

\* the record of process l's log_step call
PairStepRecord(l, global_step) ==
    MergeAll(<<LoggerFields("step"), [global_step |-> PyInt(global_step), epoch |-> PyInt(0)],
               PairMetrics(l), GetSystemMetrics(WithAccelerator),
               DetectAnomalies(PairMetrics(l))>>)

\* a rewrite that reads nothing back
ReadExisting_Nothing(disk) == <<>>

\* "if self.csv_path.exists(): ... existing_data = list(reader)"
ReadExisting(disk) == IF disk.exists THEN DictReaderRows(disk) ELSE <<>>

\* a log_* call of process l, up to the point where _write_csv has made its
\* first change to the file or, for a record with new keys, has closed its
\* handle and read the rows back
PairLog(l, record) ==
    /\ loggers[l].pc = "idle"
    /\ loggers[l].calls < MaxPairCalls
    /\ loggers[l].writer.isNone \/ (DOMAIN record) \ loggers[l].fieldnames # {}
          \/ loggers[l].at_end
    /\ \E j \in {WriteJsonl([lines |-> jsonl, tail |-> jsonl_tail], record, {})} :
          /\ jsonl' = j.file.lines
          /\ jsonl_tail' = j.file.tail
          /\ jsonl_exists' = TRUE
    /\ IF ~loggers[l].writer.isNone /\ (DOMAIN record) \ loggers[l].fieldnames # {}
       THEN /\ loggers' = [loggers EXCEPT
                              ![l] = [@ EXCEPT !.file = "closed",
                                               !.fieldnames = @ \cup DOMAIN record,
                                               !.existing_data = ReadExisting(csv_disk),
                                               !.record = record,
                                               !.pc = "rewrite",
                                               !.at_end = FALSE,
                                               !.calls = @ + 1,
                                               !.last = "read"]]
            /\ UNCHANGED csv_disk
       ELSE \E c \in {WriteCsv(PairCsvState(l), record, {})} :
               /\ csv_disk' = c.cs.disk
               /\ loggers' = [loggers EXCEPT
                                 ![l] = [@ EXCEPT !.file = c.cs.file,
                                                  !.writer = c.cs.writer,
                                                  !.fieldnames = c.cs.fieldnames,
                                                  !.at_end = TRUE,
                                                  !.calls = @ + 1,
                                                  !.last = IF loggers[l].writer.isNone
                                                           THEN "created" ELSE "appended"],
                                 ![Other(l)] = [@ EXCEPT !.at_end =
                                                   IF loggers[l].writer.isNone THEN FALSE ELSE @]]
    /\ UNCHANGED <<control, csvVars, integrationVars, last_control_check, control_lock, now, pc,
                   current_time, result, fsReads, served, superseded, writer, observedVars,
                   dashboardVars, folderVars, budget>>

\* log_start and log_step of process l
PairLogStart(l) == PairLog(l, PairStartRecord(l))

PairLogStep(l) == PairLog(l, PairStepRecord(l, loggers[l].calls))

\* the rest of _write_csv for a record with new keys: _init_csv_writer opens
\* the file with 'w', the rows read before are written, then the record
PairRewrite(l) ==
    /\ loggers[l].pc = "rewrite"
    /\ \E i \in {InitCsvWriter(PairCsvState(l), Sorted(loggers[l].fieldnames), {})} :
       \E r \in {WriteRows(i.cs, loggers[l].existing_data, 1)} :
       \E w \in {IF r.exc = "none" THEN WriteRecordRow(r.cs, loggers[l].record, {}) ELSE r} :
          /\ csv_disk' = w.cs.disk
          /\ loggers' = [loggers EXCEPT
                            ![l] = [@ EXCEPT !.file = w.cs.file,
                                             !.writer = w.cs.writer,
                                             !.existing_data = <<>>,
                                             !.record = EmptyDict,
                                             !.pc = "idle",
                                             !.at_end = TRUE,
                                             !.last = IF w.exc = "none" THEN "rewrote"
                                                      ELSE "rewrite_failed"],
                            ![Other(l)] = [@ EXCEPT !.at_end = FALSE]]
    /\ UNCHANGED <<jsonl, jsonl_tail, jsonl_exists, control, csvVars, integrationVars,
                   last_control_check, control_lock, now, pc, current_time, result, fsReads,
                   served, superseded, writer, observedVars, dashboardVars, folderVars, budget>>

InitPair ==
    /\ NewRun(FALSE, FALSE)
    /\ data = <<>>
    /\ issues = NoIssues
    /\ loaded = NoLoad
    /\ folder = NoFiles
    /\ job = NoJob
    /\ loggers = NoLoggers

NextPair ==
    \/ \E l \in Procs : PairLogStart(l)
    \/ \E l \in Procs : PairLogStep(l)
    \/ \E l \in Procs : PairRewrite(l)

SpecPair == InitPair /\ [][NextPair]_vars

\* the rows of the file old are rows of the file new, at the same places and
\* with the same text in every column old has
RowsKept(old, new) ==
    old.exists =>
        /\ new.exists
        /\ Len(new.rows) >= Len(old.rows)
        /\ Range(old.header) \subseteq Range(new.header)
        /\ \A r \in 1..Len(old.rows) :
              \A k \in Range(old.header) :
                 DictReaderRows(new)[r][k] = DictReaderRows(old)[r][k]

\* the processes that have logged to the run
Logging == {l \in Procs : loggers[l].calls > 0}

C32_Step == (Cardinality(Logging') <= 1) => RowsKept(csv_disk, csv_disk')

\* C32: as long as one logger only has logged to a run, no step of it
\* removes or changes a row that metrics.csv held, the rewrite for a new key
\* included; with a second logger on the same run there are interleavings
\* that lose rows (C32_Witness).
C32_OneLoggerKeepsRows == [][C32_Step]_vars

\* p1 read the rows back for its rewrite, p2 then appended a row through its
\* handle, and p1 replaced the file with the rows it had read: the last record
\* of p2 is in metrics.jsonl and its row is in metrics.csv no longer
C32_Witness ==
    /\ loggers["p1"].last = "rewrote"
    /\ loggers["p2"].last = "appended"
    /\ loggers["p2"].calls = 2
    /\ csv_disk.exists
    /\ {"train_loss", "global_step"} \subseteq Range(csv_disk.header)
    /\ \E n \in 1..Len(jsonl) :
          /\ {"train_loss", "global_step"} \subseteq DOMAIN jsonl[n].obj
          /\ JsonLoads(jsonl[n].obj)["train_loss"] = PairMetrics("p2")["train_loss"]
          /\ JsonLoads(jsonl[n].obj)["global_step"] = PyInt(1)
          /\ ~\E r \in 1..Len(csv_disk.rows) :
                /\ DictReaderRows(csv_disk)[r]["train_loss"]
                      = PyStr(CsvCell(PairMetrics("p2")["train_loss"]))
                /\ DictReaderRows(csv_disk)[r]["global_step"] = PyStr("1")
====
